---- MODULE Spec2Model ----
(***************************************************************************)
(* A model of rolo's handler chain (rolo/gateway/chain.py).                *)
(*                                                                         *)
(* One behaviour of the model is one call to HandlerChain.handle on a      *)
(* freshly constructed chain.  Handlers are arbitrary user code: what a    *)
(* handler does with the chain (which of stop(), terminate() and throw()   *)
(* it calls, and whether it raises) is chosen nondeterministically at each *)
(* invocation.                                                             *)
(***************************************************************************)
EXTENDS Naturals, Sequences, FiniteSets

\* The largest number of handlers registered in one handler list.
MaxHandlers == 2

\* The largest number of handlers registered in the four lists together.
MaxRegistered == 4

\* The number of threads that call the router concurrently.
MaxThreads == 2

Lists == {"request", "exception", "response", "finalizer"}

\* The chain control primitives a handler can call during its invocation.
Primitives == {"stop", "terminate", "throw"}

\* A handler is identified by the list it is registered in and its position.
Handler(list, pos) == [list |-> list, pos |-> pos]
NoHandler == Handler("none", 0)

\* A handler list holding n handlers, in registration order.
HandlerList(list, n) == [pos \in 1..n |-> Handler(list, pos)]

\* "for handler in list": the handler the loop over list visits at step pos.
ItemReversed(list, pos) == list[Len(list) + 1 - pos]
Item(list, pos) == list[pos]

\* Exceptions: the exception a handler raises, and the error object a handler
\* passes to throw() (one error object per handler list: the handlers of one
\* list throw the same object).
None == [kind |-> "none", by |-> NoHandler]
Thrown(h) == [kind |-> "thrown", by |-> Handler(h.list, 0)]
Raised(h) == [kind |-> "raised", by |-> h]

\* The response object handle is given.  Its body (Response.response) is a
\* list of chunks or None; a chunk is raw data or a serialised document.
ContentType == "Content-Type"
Raw(data) == [as |-> "raw", of |-> data]
Body(chunks) == [none |-> FALSE, chunks |-> chunks]
NoneBody == [none |-> TRUE, chunks |-> <<>>]
\* bool(response.response)
Truthy(body) == ~body.none /\ body.chunks # <<>>
NoHeaders == [n \in {} |-> ""]
\* Headers.update
Update(old, new) ==
    [n \in DOMAIN old \cup DOMAIN new |-> IF n \in DOMAIN new THEN new[n] ELSE old[n]]
\* Response(): status 200, an empty body, the default content type.
DefaultResponse ==
    [status_code |-> 200, response |-> Body(<<>>),
     headers |-> [n \in {ContentType} |-> "text/plain"]]

\* The payloads of respond: None, a str or bytes, a list or dict, and any
\* other object (an iterable of chunks).
PayloadNone == [kind |-> "none", value |-> <<>>]
Str(data) == [kind |-> "str", value |-> <<data>>]
Json(doc) == [kind |-> "json", value |-> <<doc>>]
Iterable(chunks) == [kind |-> "iterable", value |-> chunks]

\* json.dumps
Dumps(doc) == [as |-> "json", of |-> doc]
\* Response.set_json
set_json(resp, doc) ==
    [resp EXCEPT !.response = Body(<<Dumps(doc)>>),
                 !.headers = Update(@, [n \in {ContentType} |-> "application/json"])]
\* response.data = payload
set_data(resp, data) == [resp EXCEPT !.response = Body(<<Raw(data)>>)]
\* response.response = payload
set_response(resp, payload) ==
    [resp EXCEPT !.response = IF payload.kind = "none" THEN NoneBody
                              ELSE Body(payload.value)]

\* HandlerChain.respond, up to its call to stop()
respondIgnored(resp, status_code, payload, headers) == resp
respond(resp, status_code, payload, headers) ==
    LET status == [resp EXCEPT !.status_code = status_code]
        body == CASE payload.kind = "json" -> set_json(status, payload.value[1])
                  [] payload.kind = "str" -> set_data(status, payload.value[1])
                  [] payload.kind = "none" /\ ~Truthy(status.response) ->
                        [status EXCEPT !.response = Body(<<>>)]
                  [] OTHER -> set_response(status, payload)
    IN  [body EXCEPT !.headers = Update(@, headers)]

\* One call to respond: the response it was called on and its arguments.
RespondCall(resp, status_code, payload, headers) ==
    [called |-> TRUE, before |-> resp, status_code |-> status_code,
     payload |-> payload, headers |-> headers]
NoRespond ==
    [called |-> FALSE, before |-> DefaultResponse, status_code |-> 0,
     payload |-> PayloadNone, headers |-> NoHeaders]

VARIABLES
    request_handlers,   \* HandlerChain.request_handlers
    response_handlers,  \* HandlerChain.response_handlers
    finalizers,         \* HandlerChain.finalizers
    exception_handlers, \* HandlerChain.exception_handlers
    stop_on_error,      \* HandlerChain.stop_on_error
    raise_on_error,     \* HandlerChain.raise_on_error
    stopped,            \* HandlerChain.stopped
    terminated,         \* HandlerChain.terminated
    finalized,          \* HandlerChain.finalized
    error,              \* HandlerChain.error
    pc,                 \* the loop of handle that is executing
    i,                  \* position of the request-handler loop
    j,                  \* position of the exception-handler loop
    k,                  \* position of the response-handler loop
    f,                  \* position of the finalizer loop
    e,                  \* the exception caught from the current request handler
    raising,            \* the exception propagating out of handle's try block
    calls,              \* history: the handler invocations, in order, each with
                        \* whether the handler raised
    caller,             \* history: per primitive, the first handler that called it
                        \* (finalizers, which run last, are not recorded)
    response,           \* HandlerChain.response
    respond_call,       \* history: the last call to respond
    url_map,            \* Router.url_map: a reference to a Map of the heap
    maps,               \* the heap of Map objects: the rules (Map._rules) of each
    mutex,              \* Router._mutex: the thread that holds it
    threads,            \* per thread: the router method it runs (op), its
                        \* position in it (pc), its local variables (new, old,
                        \* matcher, the position of its loop), its outcome, and
                        \* (history) how many maps were published when it matched
    published,          \* history: the maps url_map has referred to, each with
                        \* its rules when it was assigned and the assigning thread
    returned,           \* history: the router calls that have returned or
                        \* raised, in order, each as its thread was at the end
    rule_factory,       \* the argument of a call of Router.add
    url_rules,          \* the rules of the router's Map (Map._rules), in order
    add_result,         \* the rules the call of Router.add returned
    gateway,            \* the Gateway: its four handler lists
    chains,             \* the heap of HandlerChain objects
    contexts,           \* the heap of RequestContext objects
    serving,            \* per thread: the call of Gateway.process or accept it
                        \* runs, with the request, the response object, the
                        \* websocket, the locals of process and of handle, and
                        \* (history) the handlers invoked for it
    listener,           \* a call of the application WebSocketRequest.listener
                        \* returns: the function it wraps, the websocket of
                        \* the request, its position and its outcome
    channel,            \* a WebSocketChannel of the twisted server: its
                        \* eventQueue, request.finished, the state of its
                        \* client, the thread that reads from its adapter, and
                        \* (history) the messages that arrived, the outcomes of
                        \* the calls of receive and the messages an iteration
                        \* yielded
    dispatching,        \* a call of a HandlerDispatcher: the dispatcher, the
                        \* body parameter of the endpoint, the request body,
                        \* the value the endpoint returns, and the outcome
    context,            \* a RequestContext: its __dict__, and (history) the
                        \* assignments made and the last read, with the
                        \* number of assignments made before it
    removal             \* a call of Router.remove: the rules of the url_map,
                        \* the rules given, and the outcome

config == <<request_handlers, response_handlers, finalizers, exception_handlers,
            stop_on_error, raise_on_error>>
flags == <<stopped, terminated, finalized, error>>
control == <<pc, i, j, k, f, e, raising>>
history == <<calls, caller>>
output == <<response, respond_call>>
router == <<url_map, maps, mutex, threads, published, returned>>
adding == <<rule_factory, url_rules, add_result>>
sockets == <<listener, channel>>
units == <<dispatching, context, removal>>
serve == <<gateway, chains, contexts, serving, sockets, units>>
components == <<adding, serve>>
vars == <<config, flags, control, history, output, router, components>>

\* No router: the state of the router variables while a chain is modelled.
NoRouter ==
    /\ url_map = 0
    /\ maps = <<>>
    /\ mutex = 0
    /\ threads = <<>>
    /\ published = <<>>
    /\ returned = <<>>

\* No call of add with a rule factory.
NoAdd ==
    /\ rule_factory = <<>>
    /\ url_rules = <<>>
    /\ add_result = <<>>

\* No Gateway.
NoGateway ==
    /\ gateway = <<>>
    /\ chains = <<>>
    /\ contexts = <<>>
    /\ serving = <<>>
    /\ listener = <<>>
    /\ channel = <<>>
    /\ dispatching = <<>>
    /\ context = <<>>
    /\ removal = <<>>

\* The state of the other components while a chain or a router is modelled.
NoComponents == NoAdd /\ NoGateway

\* One handler invocation as recorded in the history.
Call(h, fails) == [handler |-> h, raised |-> fails]

\* The chain methods whose first caller the history records.
Recorded == Primitives \cup {"respond"}

\* The history of primitive calls after handler h has called the primitives in c.
Callers(c, h) ==
    [p \in Recorded |-> IF p \in c /\ caller[p] = NoHandler THEN h ELSE caller[p]]

\* Readings of the history.
\* The handlers of a list that were invoked, in invocation order.
Invoked(list) ==
    LET sel == SelectSeq(calls, LAMBDA c : c.handler.list = list)
    IN  [n \in 1..Len(sel) |-> sel[n].handler]
\* The handlers of a list that raised.
RaisedIn(list) ==
    {calls[n].handler : n \in {m \in 1..Len(calls) :
        calls[m].handler.list = list /\ calls[m].raised}}
\* Handler h was invoked and returned without raising.
Returned(h) == \E n \in 1..Len(calls) : calls[n] = Call(h, FALSE)
\* The first n handlers of a handler list.
Prefix(list, n) == SubSeq(list, 1, n)
\* handle has returned or raised to its caller.
Completed == pc = "done"

\* HandlerChain.__init__ followed by the entry of handle
Init ==
    /\ \E n \in 0..MaxHandlers : request_handlers = HandlerList("request", n)
    /\ \E n \in 0..MaxHandlers : response_handlers = HandlerList("response", n)
    /\ \E n \in 0..MaxHandlers : finalizers = HandlerList("finalizer", n)
    /\ \E n \in 0..MaxHandlers : exception_handlers = HandlerList("exception", n)
    /\ Len(request_handlers) + Len(response_handlers)
        + Len(finalizers) + Len(exception_handlers) <= MaxRegistered
    /\ stop_on_error \in BOOLEAN
    /\ raise_on_error \in BOOLEAN
    /\ stopped = FALSE
    /\ terminated = FALSE
    /\ finalized = FALSE
    /\ error = None
    /\ pc = "request"
    /\ i = 1
    /\ j = 1
    /\ k = 1
    /\ f = 1
    /\ e = None
    /\ raising = None
    /\ calls = <<>>
    /\ caller = [p \in Recorded |-> NoHandler]
    /\ response = DefaultResponse
    /\ respond_call = NoRespond
    /\ NoRouter
    /\ NoComponents

\* HandlerChain.stop
stopNotRecorded(s) == s
stop(s) == TRUE

\* HandlerChain.terminate
terminateNotRecorded(t) == t
terminate(t) == TRUE

\* HandlerChain.throw
throwKeepsPending(old, err) == IF old # None THEN old ELSE err
throw(old, err) == err

\* The chain's flags after handler h has called the primitives in c.
AfterStop(c) == IF "stop" \in c THEN stop(stopped) ELSE stopped
AfterTerminate(c) == IF "terminate" \in c THEN terminate(terminated) ELSE terminated
AfterThrow(c, h) == IF "throw" \in c THEN throw(error, Thrown(h)) ELSE error

\* The calls to respond a request handler makes: none, or
\* chain.respond(202, "ok").
RespondCalls == {NoRespond, RespondCall(response, 202, Str("ok"), NoHeaders)}
\* respond ends with a call to stop(): the chain methods called by a handler
\* that calls the primitives in c and makes the call r to respond.
Does(c, r) == IF r.called THEN c \cup {"stop", "respond"} ELSE c
\* The response after the call r to respond.
AfterRespond(r) ==
    IF r.called THEN respond(response, r.status_code, r.payload, r.headers)
    ELSE response

\* "decide next step" of handle, after a request handler has returned or its
\* exception has been handled.
DecideTerminateFirst(err, term, stop_) ==
    IF term THEN "return"
    ELSE IF err # None THEN "raise"
    ELSE IF stop_ THEN "break"
    ELSE "continue"
DecideStopFirst(err, term, stop_) ==
    IF stop_ THEN "break"
    ELSE IF err # None THEN "raise"
    ELSE IF term THEN "return"
    ELSE "continue"
Decide(err, term, stop_) ==
    IF err # None THEN "raise"
    ELSE IF term THEN "return"
    ELSE IF stop_ THEN "break"
    ELSE "continue"

\* Where handle goes on a decision: raise and return leave the try block for
\* the finally block, break leaves the loop for the response handlers.
NextPcRaiseAfterResponse(d) ==
    CASE d = "raise" -> "response"
      [] d = "return" -> "finalizers"
      [] d = "break" -> "response"
      [] OTHER -> "request"
NextPc(d) ==
    CASE d = "raise" -> "finalizers"
      [] d = "return" -> "finalizers"
      [] d = "break" -> "response"
      [] OTHER -> "request"

ApplyDecision(d) ==
    /\ pc' = NextPc(d)
    /\ raising' = IF d = "raise" THEN error' ELSE None
    /\ i' = IF d = "continue" THEN i + 1 ELSE i

\* The except-branch of handle: the continuation prepared for an exception x.
ErrorNeverKept(err, x) == err
ErrorAlwaysKept(err, x) == x
ErrorOnException(err, x) == IF raise_on_error THEN x ELSE err
StoppedOnExceptionNever(s) == s
StoppedOnException(s) == IF stop_on_error THEN TRUE ELSE s

\* The except-branches of _call_exception_handlers, _call_response_handlers
\* and _call_finalizers: the exception x is logged, the pending error stays.
LoggedBecomesError(err, x) == x
Logged(err, x) == err

\* One iteration of the request-handler loop: the handler is invoked, and
\* either it returns and the chain decides the next step, or it raises and the
\* chain goes on to the exception handlers.
RequestHandler ==
    /\ pc = "request"
    /\ i <= Len(request_handlers)
    /\ \E c \in SUBSET Primitives, r \in RespondCalls, fails \in BOOLEAN :
        LET h == Item(request_handlers, i)
            does == Does(c, r)
        IN
        /\ r.called => "stop" \notin c
        /\ calls' = Append(calls, Call(h, fails))
        /\ caller' = Callers(does, h)
        /\ response' = AfterRespond(r)
        /\ respond_call' = IF r.called THEN r ELSE respond_call
        /\ terminated' = AfterTerminate(does)
        /\ IF fails
           THEN /\ e' = Raised(h)
                /\ error' = ErrorOnException(AfterThrow(does, h), Raised(h))
                /\ stopped' = StoppedOnException(AfterStop(does))
                /\ pc' = "exception"
                /\ j' = 1
                /\ UNCHANGED <<i, raising>>
           ELSE /\ error' = AfterThrow(does, h)
                /\ stopped' = AfterStop(does)
                /\ ApplyDecision(Decide(error', terminated', stopped'))
                /\ UNCHANGED <<e, j>>
    /\ UNCHANGED <<config, finalized, k, f, router, components>>

\* Whether _call_exception_handlers goes on to its handler at position p.
ExceptionLoopEndsOnNested(p) ==
    p <= Len(exception_handlers) /\ RaisedIn("exception") = {}
ExceptionLoopRuns(p) == p <= Len(exception_handlers)

\* One iteration of _call_exception_handlers
ExceptionHandler ==
    /\ pc = "exception"
    /\ ExceptionLoopRuns(j)
    /\ \E c \in SUBSET Primitives, fails \in BOOLEAN :
        LET h == Item(exception_handlers, j) IN
        /\ calls' = Append(calls, Call(h, fails))
        /\ caller' = Callers(c, h)
        /\ stopped' = AfterStop(c)
        /\ terminated' = AfterTerminate(c)
        /\ error' = IF fails THEN Logged(AfterThrow(c, h), Raised(h))
                            ELSE AfterThrow(c, h)
    /\ j' = j + 1
    /\ UNCHANGED <<config, finalized, pc, i, k, f, e, raising, output, router, components>>

\* _call_exception_handlers has returned: the chain decides the next step.
ExceptionHandled ==
    /\ pc = "exception"
    /\ ~ExceptionLoopRuns(j)
    /\ e' = None
    /\ UNCHANGED <<flags>>
    /\ ApplyDecision(Decide(error, terminated, stopped))
    /\ UNCHANGED <<config, j, k, f, history, output, router, components>>

\* The request-handler loop is exhausted.
RequestHandlersDone ==
    /\ pc = "request"
    /\ i > Len(request_handlers)
    /\ pc' = "response"
    /\ UNCHANGED <<config, flags, i, j, k, f, e, raising, history, output, router, components>>

\* Whether the response-handler loop goes on to its handler at position p.
ResponseLoopEndsOnException(p) ==
    p <= Len(response_handlers) /\ ~terminated /\ RaisedIn("response") = {}
ResponseLoopIgnoresTerminate(p) == p <= Len(response_handlers)
ResponseLoopChecksError(p) ==
    p <= Len(response_handlers) /\ ~terminated /\ error = None
ResponseLoopRuns(p) == p <= Len(response_handlers) /\ ~terminated

\* One iteration of _call_response_handlers
ResponseHandler ==
    /\ pc = "response"
    /\ ResponseLoopRuns(k)
    /\ \E c \in SUBSET Primitives, fails \in BOOLEAN :
        LET h == Item(response_handlers, k) IN
        /\ calls' = Append(calls, Call(h, fails))
        /\ caller' = Callers(c, h)
        /\ stopped' = AfterStop(c)
        /\ terminated' = AfterTerminate(c)
        /\ error' = IF fails THEN Logged(AfterThrow(c, h), Raised(h))
                            ELSE AfterThrow(c, h)
    /\ k' = k + 1
    /\ UNCHANGED <<config, finalized, pc, i, j, f, e, raising, output, router, components>>

\* _call_response_handlers returns; handle enters its finally block.
ResponseHandlersDone ==
    /\ pc = "response"
    /\ ~ResponseLoopRuns(k)
    /\ pc' = "finalizers"
    /\ UNCHANGED <<config, flags, i, j, k, f, e, raising, history, output, router, components>>

\* Whether the finally block of handle goes on to the finalizer at position p.
FinalizersSkippedOnRaise(p) ==
    ~finalized /\ p <= Len(finalizers) /\ raising = None
FinalizerLoopRuns(p) == ~finalized /\ p <= Len(finalizers)

\* One iteration of _call_finalizers
Finalizer ==
    /\ pc = "finalizers"
    /\ FinalizerLoopRuns(f)
    /\ \E c \in SUBSET Primitives, fails \in BOOLEAN :
        LET h == Item(finalizers, f) IN
        /\ calls' = Append(calls, Call(h, fails))
        /\ stopped' = AfterStop(c)
        /\ terminated' = AfterTerminate(c)
        /\ error' = IF fails THEN Logged(AfterThrow(c, h), Raised(h))
                            ELSE AfterThrow(c, h)
    /\ f' = f + 1
    /\ UNCHANGED <<config, finalized, pc, i, j, k, e, raising, caller, output, router, components>>

\* The finally block is left: handle returns, or the exception in `raising`
\* reaches the caller.
Finished ==
    /\ pc = "finalizers"
    /\ ~FinalizerLoopRuns(f)
    /\ pc' = "done"
    /\ UNCHANGED <<config, flags, i, j, k, f, e, raising, history, output, router, components>>

Next ==
    \/ RequestHandler
    \/ ExceptionHandler
    \/ ExceptionHandled
    \/ RequestHandlersDone
    \/ ResponseHandler
    \/ ResponseHandlersDone
    \/ Finalizer
    \/ Finished

Spec == Init /\ [][Next]_vars

(***************************************************************************)
(* Properties of HandlerChain.handle                                       *)
(***************************************************************************)

\* No handler of the request, exception or response lists called terminate().
NoTerminate == caller["terminate"] = NoHandler

\* C1: one call to handle invokes every registered finalizer exactly once, in
\* registration order, whatever the request handlers did (stop, terminate,
\* throw, raise), also when handle raises to its caller and when an earlier
\* finalizer raised.
C1_FinalizersRunExactlyOnce ==
    Completed => Invoked("finalizer") = finalizers

\* C1 witness: handle raised to its caller, the first of several finalizers
\* raised, and every finalizer was invoked.
C1_Witness ==
    /\ Completed
    /\ raising # None
    /\ Len(finalizers) >= 2
    /\ finalizers[1] \in RaisedIn("finalizer")
    /\ Invoked("finalizer") = finalizers

\* C2: when response handler n raises, the response handlers after n are still
\* invoked (the loop ends early only on terminate()), and handle does not raise
\* to its caller.
C2_ResponseHandlerIsolation ==
    Completed =>
        \A n \in 1..Len(response_handlers) :
            (response_handlers[n] \in RaisedIn("response") /\ NoTerminate)
                => /\ Invoked("response") = response_handlers
                   /\ raising = None

\* C2 witness: the first of several response handlers raised and the later
\* ones were invoked.
C2_Witness ==
    /\ Completed
    /\ Len(response_handlers) >= 2
    /\ response_handlers[1] \in RaisedIn("response")
    /\ Invoked("response") = response_handlers

\* C3: when request handler n calls stop() (and neither terminate() nor
\* throw()) and returns, no request handler after n is invoked, and every
\* response handler (none of which calls terminate()) and every finalizer is
\* invoked.
C3_StopSkipsRequestHandlers ==
    Completed =>
        \A n \in 1..Len(request_handlers) :
            LET h == request_handlers[n] IN
            (caller["stop"] = h /\ Returned(h) /\ NoTerminate /\ caller["throw"] # h)
                => /\ Invoked("request") = Prefix(request_handlers, n)
                   /\ Invoked("response") = response_handlers
                   /\ Invoked("finalizer") = finalizers

\* C3 witness: the first of several request handlers called stop() and
\* returned; response handlers and finalizers are registered.
C3_Witness ==
    /\ Completed
    /\ Len(request_handlers) >= 2
    /\ caller["stop"] = request_handlers[1]
    /\ Returned(request_handlers[1])
    /\ NoTerminate
    /\ caller["throw"] # request_handlers[1]
    /\ Len(response_handlers) >= 1
    /\ Len(finalizers) >= 1
    /\ Invoked("request") = Prefix(request_handlers, 1)

\* C4: when request handler n calls terminate() (and not throw()) and returns,
\* no request handler after n and no response handler is invoked, handle
\* returns normally, and every finalizer is invoked.
C4_TerminateSkipsResponseHandlers ==
    Completed =>
        \A n \in 1..Len(request_handlers) :
            LET h == request_handlers[n] IN
            (caller["terminate"] = h /\ Returned(h) /\ caller["throw"] # h)
                => /\ Invoked("request") = Prefix(request_handlers, n)
                   /\ Invoked("response") = <<>>
                   /\ raising = None
                   /\ Invoked("finalizer") = finalizers

\* C4 witness: the first of several request handlers called terminate() and
\* returned; response handlers and finalizers are registered.
C4_Witness ==
    /\ Completed
    /\ Len(request_handlers) >= 2
    /\ caller["terminate"] = request_handlers[1]
    /\ Returned(request_handlers[1])
    /\ caller["throw"] # request_handlers[1]
    /\ Len(response_handlers) >= 1
    /\ Len(finalizers) >= 1
    /\ raising = None

\* The exception handlers invoked right after the n-th invocation of the
\* history, up to the next invocation of a handler of another list.
ExceptionRun(n) ==
    LET later == {m \in (n + 1)..Len(calls) : calls[m].handler.list # "exception"}
        stop_ == IF later = {} THEN Len(calls) + 1
                 ELSE CHOOSE m \in later : \A o \in later : m <= o
    IN  [x \in 1..(stop_ - n - 1) |-> calls[n + x].handler]

\* C5: when a request handler raises, every registered exception handler is
\* invoked exactly once for that exception, in registration order, also when
\* an earlier exception handler raised; exception handlers are invoked for
\* nothing else, and no exception of an exception handler leaves handle.
C5_ExceptionHandlersAllRun ==
    /\ pc # "exception" =>
        \A n \in 1..Len(calls) :
            /\ calls[n].handler.list = "request" =>
                ExceptionRun(n) = IF calls[n].raised THEN exception_handlers ELSE <<>>
            /\ calls[n].handler.list = "exception" =>
                n > 1 /\ calls[n - 1].handler.list \in {"request", "exception"}
    /\ (Completed /\ raising.kind = "raised") => raising.by.list = "request"

\* C5 witness: a request handler raised, the first of several exception
\* handlers raised, every exception handler was invoked, and handle returned.
C5_Witness ==
    /\ Completed
    /\ raising = None
    /\ RaisedIn("request") # {}
    /\ Len(exception_handlers) >= 2
    /\ exception_handlers[1] \in RaisedIn("exception")
    /\ Invoked("exception") = exception_handlers

\* The handler list a handler is registered in, and its position there.
ListOf(h) ==
    CASE h.list = "request" -> request_handlers
      [] h.list = "exception" -> exception_handlers
      [] h.list = "response" -> response_handlers
      [] h.list = "finalizer" -> finalizers
Registered(h) == CHOOSE n \in 1..Len(ListOf(h)) : ListOf(h)[n] = h

\* The phase of handle a handler list belongs to.
Phase(list) ==
    CASE list \in {"request", "exception"} -> 1
      [] list = "response" -> 2
      [] list = "finalizer" -> 3

\* C6: the invoked handlers of each list are invoked in registration order
\* (the exception handlers within each run over their list), each request
\* handler, response handler and finalizer at most once, and every
\* request-phase invocation precedes every response-handler invocation, which
\* precedes every finalizer invocation.
C6_RegistrationOrder ==
    \A b \in 1..Len(calls) :
        \A a \in 1..(b - 1) :
            LET x == calls[a].handler
                y == calls[b].handler
            IN  /\ Phase(x.list) <= Phase(y.list)
                /\ (x.list = y.list /\ x.list # "exception")
                    => Registered(x) < Registered(y)
                /\ (x.list = "exception" /\ y.list = "exception" /\ b = a + 1)
                    => Registered(x) < Registered(y)

\* C6 witness: one call to handle invoked two request handlers, ran the
\* exception handlers twice, and went on to the response handlers and the
\* finalizers.
C6_Witness ==
    /\ Completed
    /\ Len(Invoked("request")) >= 2
    /\ Len(Invoked("exception")) >= 2
    /\ Len(Invoked("response")) + Len(Invoked("finalizer")) >= 1

\* C7 as stated: when handle raises a pending error to its caller, neither
\* the response handlers nor the finalizers run.
C7_RaiseSkipsFinalizers ==
    (Completed /\ raising # None) =>
        /\ Invoked("response") = <<>>
        /\ Invoked("finalizer") = <<>>

\* C7 amended: when handle raises a pending error to its caller, no response
\* handler runs, and every finalizer still runs, exactly once.
C7_RaiseSkipsResponseHandlers ==
    (Completed /\ raising # None) =>
        /\ Invoked("response") = <<>>
        /\ Invoked("finalizer") = finalizers

\* C7 witness: handle raised with response handlers and finalizers registered.
C7_Witness ==
    /\ Completed
    /\ raising # None
    /\ Len(response_handlers) >= 1
    /\ Len(finalizers) >= 1
    /\ Invoked("finalizer") = finalizers

\* C8: with raise-on-error disabled, handle raises to its caller only an error
\* passed to throw() during the request-handler phase (by a request handler or
\* by an exception handler); no exception raised by a handler escapes.
C8_OnlyThrownErrorsEscape ==
    (Completed /\ ~raise_on_error /\ raising # None) =>
        /\ raising.kind = "thrown"
        /\ raising.by.list \in {"request", "exception"}
        /\ caller["throw"].list \in {"request", "exception"}

\* C8 witness: raise-on-error is disabled, a request handler and an exception
\* handler raised, and what handle raised to its caller is a thrown error.
C8_Witness ==
    /\ Completed
    /\ ~raise_on_error
    /\ RaisedIn("request") # {}
    /\ RaisedIn("exception") # {}
    /\ raising.kind = "thrown"

\* C9: when request handler n calls throw(e) and returns normally, handle
\* raises e right after: no request handler after n, no exception handler and
\* no response handler is invoked afterwards.
C9_ThrowRaisesAfterReturn ==
    \A n \in 1..Len(request_handlers) :
        LET h == request_handlers[n] IN
        (caller["throw"] = h /\ Returned(h)) =>
            /\ pc \in {"finalizers", "done"}
            /\ raising = Thrown(h)
            /\ Invoked("request") = Prefix(request_handlers, n)
            /\ Invoked("response") = <<>>
            /\ \A m \in 1..Len(calls) :
                calls[m] = Call(h, FALSE) => ExceptionRun(m) = <<>>

\* C9 witness: the first of several request handlers called throw() and
\* returned, with exception and response handlers registered, and handle
\* raised the thrown error.
C9_Witness ==
    /\ Completed
    /\ Len(request_handlers) >= 2
    /\ caller["throw"] = request_handlers[1]
    /\ Returned(request_handlers[1])
    /\ Len(exception_handlers) >= 1
    /\ Len(response_handlers) >= 1
    /\ raising = Thrown(request_handlers[1])

\* C10: throw(e) called by a response handler has no effect on the control
\* flow: handle does not raise, the remaining response handlers are invoked
\* as they are without it (all of them, unless terminate() is called), and
\* every finalizer is invoked.
C10_ThrowInResponseHandler ==
    (Completed /\ caller["throw"].list = "response") =>
        /\ raising = None
        /\ NoTerminate => Invoked("response") = response_handlers
        /\ Invoked("finalizer") = finalizers

\* C10 witness: the first of several response handlers called throw(), the
\* later ones and a finalizer were invoked, and handle returned.
C10_Witness ==
    /\ Completed
    /\ Len(response_handlers) >= 2
    /\ caller["throw"] = response_handlers[1]
    /\ Invoked("response") = response_handlers
    /\ Len(finalizers) >= 1
    /\ raising = None

\* C11: with raise-on-error enabled, when request handler n raises e, every
\* exception handler is invoked, then handle raises e to its caller (or the
\* error an exception handler put in its place with throw()); no request
\* handler after n and no response handler is invoked.
C11_RaiseOnError ==
    (raise_on_error /\ pc # "exception") =>
        \A n \in 1..Len(request_handlers) :
            LET h == request_handlers[n] IN
            h \in RaisedIn("request") =>
                /\ pc \in {"finalizers", "done"}
                /\ raising \in {Raised(h), Thrown(Handler("exception", 1))}
                /\ caller["throw"] = NoHandler => raising = Raised(h)
                /\ Invoked("request") = Prefix(request_handlers, n)
                /\ Invoked("exception") = exception_handlers
                /\ Invoked("response") = <<>>

\* C11 witness: raise-on-error is enabled, the first of several request
\* handlers raised, the exception handlers ran, and handle raised that
\* exception with a response handler registered.
C11_Witness ==
    /\ Completed
    /\ raise_on_error
    /\ Len(request_handlers) >= 2
    /\ request_handlers[1] \in RaisedIn("request")
    /\ Len(exception_handlers) >= 1
    /\ Invoked("exception") = exception_handlers
    /\ Len(response_handlers) >= 1
    /\ raising = Raised(request_handlers[1])

\* C12: the decision after a request handler has returned or its exception
\* has been handled has the priority error, terminated, stopped: the request
\* loop goes on only with no flag set, the response handlers are entered only
\* with no pending error and not terminated; a request handler that calls
\* throw() and terminate() makes handle raise, and one that calls stop() and
\* terminate() runs no response handler.
C12_DecisionPriority ==
    /\ pc = "request" => (error = None /\ ~terminated /\ ~stopped)
    /\ (pc = "response" /\ Invoked("response") = <<>>)
        => (error = None /\ ~terminated)
    /\ pc # "exception" =>
        \A n \in 1..Len(request_handlers) :
            LET h == request_handlers[n] IN
            /\ (caller["throw"] = h /\ caller["terminate"] = h)
                => /\ pc \in {"finalizers", "done"}
                   /\ raising # None
                   /\ Returned(h) => raising = Thrown(h)
                   /\ Invoked("response") = <<>>
            /\ (caller["stop"] = h /\ caller["terminate"] = h)
                => /\ pc \in {"finalizers", "done"}
                   /\ Invoked("response") = <<>>
                   /\ (caller["throw"] = NoHandler /\ Returned(h))
                        => raising = None

\* C12 witness: the first of several request handlers called stop(),
\* terminate() and throw() and returned, a response handler is registered,
\* and handle raised the thrown error.
C12_Witness ==
    /\ Completed
    /\ Len(request_handlers) >= 2
    /\ \A p \in Primitives : caller[p] = request_handlers[1]
    /\ Returned(request_handlers[1])
    /\ Len(response_handlers) >= 1
    /\ raising = Thrown(request_handlers[1])

\* C13: when response handler n calls terminate(), the response handlers
\* after n are not invoked and every finalizer is; when a response handler
\* calls stop() (and none calls terminate()), every response handler and
\* every finalizer is invoked.
C13_TerminateInResponseHandler ==
    Completed =>
        /\ \A n \in 1..Len(response_handlers) :
            caller["terminate"] = response_handlers[n]
                => /\ Invoked("response") = Prefix(response_handlers, n)
                   /\ Invoked("finalizer") = finalizers
                   /\ raising = None
        /\ (caller["stop"].list = "response" /\ NoTerminate)
                => /\ Invoked("response") = response_handlers
                   /\ Invoked("finalizer") = finalizers

\* C13 witness: the first of several response handlers called terminate(),
\* the later ones were not invoked, and a finalizer was.
C13_Witness ==
    /\ Completed
    /\ Len(response_handlers) >= 2
    /\ caller["terminate"] = response_handlers[1]
    /\ Invoked("response") = Prefix(response_handlers, 1)
    /\ Len(finalizers) >= 1
    /\ Invoked("finalizer") = finalizers

\* C14: with stop-on-error on and raise-on-error off, when request handler n
\* raises and no handler calls terminate() or throw(), the request handlers
\* after n are not invoked, every response handler is, and handle returns
\* normally.
C14_DefaultErrorPolicy ==
    (Completed /\ stop_on_error /\ ~raise_on_error) =>
        \A n \in 1..Len(request_handlers) :
            (request_handlers[n] \in RaisedIn("request")
                /\ NoTerminate /\ caller["throw"] = NoHandler)
                => /\ Invoked("request") = Prefix(request_handlers, n)
                   /\ Invoked("exception") = exception_handlers
                   /\ Invoked("response") = response_handlers
                   /\ raising = None

\* C14 witness: default configuration, the first of several request handlers
\* raised, no handler called stop(), terminate() or throw(), and the exception
\* handler and the response handler were invoked.
C14_Witness ==
    /\ Completed
    /\ stop_on_error
    /\ ~raise_on_error
    /\ Len(request_handlers) >= 2
    /\ request_handlers[1] \in RaisedIn("request")
    /\ \A p \in Primitives : caller[p] = NoHandler
    /\ Len(exception_handlers) >= 1
    /\ Len(response_handlers) >= 1
    /\ Invoked("response") = response_handlers
    /\ raising = None

\* C15: no exception handler is invoked after a response handler or a
\* finalizer was, and the pending error is never an exception raised by an
\* exception handler, a response handler or a finalizer: after handle it is
\* unset unless throw() was called or raise-on-error kept a request
\* handler's exception.
C15_LaterExceptionsAreLogged ==
    /\ \A b \in 1..Len(calls) :
        calls[b].handler.list = "exception" =>
            \A a \in 1..(b - 1) : calls[a].handler.list \in {"request", "exception"}
    /\ error.kind = "raised" =>
        (raise_on_error /\ error.by \in RaisedIn("request"))
    /\ (Completed /\ RaisedIn("request") = {} /\ error.kind # "thrown")
        => error = None

\* C15 witness: a response handler and a finalizer raised, an exception
\* handler is registered and was not invoked, and the pending error is unset.
C15_Witness ==
    /\ Completed
    /\ RaisedIn("response") # {}
    /\ RaisedIn("finalizer") # {}
    /\ Len(exception_handlers) >= 1
    /\ Invoked("exception") = <<>>
    /\ error = None

\* C16: when request handler n calls respond(status, payload) (and neither
\* terminate() nor throw()) and returns, the response carries that status and
\* payload, the chain is stopped, no request handler after n is invoked, and
\* every response handler (none of which calls terminate()) and every
\* finalizer is invoked.
C16_RespondStopsChain ==
    \A n \in 1..Len(request_handlers) :
        LET h == request_handlers[n] IN
        (caller["respond"] = h /\ Returned(h) /\ NoTerminate /\ caller["throw"] # h)
            => /\ response.status_code = respond_call.status_code
               /\ response.response = Body(<<Raw(respond_call.payload.value[1])>>)
               /\ stopped
               /\ pc \in {"response", "finalizers", "done"}
               /\ Invoked("request") = Prefix(request_handlers, n)
               /\ Completed =>
                    /\ Invoked("response") = response_handlers
                    /\ Invoked("finalizer") = finalizers
                    /\ raising = None

\* C16 witness: the first of several request handlers called
\* respond(202, "ok") and returned; the response has status 202 and body "ok",
\* the second request handler was not invoked, and the response handler and
\* the finalizer were.
C16_Witness ==
    /\ Completed
    /\ Len(request_handlers) >= 2
    /\ caller["respond"] = request_handlers[1]
    /\ Returned(request_handlers[1])
    /\ response.status_code = 202
    /\ response.response = Body(<<Raw("ok")>>)
    /\ Invoked("request") = Prefix(request_handlers, 1)
    /\ Len(response_handlers) >= 1
    /\ Invoked("response") = response_handlers
    /\ Len(finalizers) >= 1
    /\ Invoked("finalizer") = finalizers

(***************************************************************************)
(* HandlerChain.respond on its own: one call to respond on a chain whose   *)
(* response has any status, body and headers.                              *)
(***************************************************************************)

\* The responses respond is called on, and its arguments.
Responses ==
    {[status_code |-> s, response |-> b, headers |-> h] :
        s \in {200, 404},
        b \in {Body(<<>>), Body(<<Raw("old")>>)},
        h \in {DefaultResponse.headers,
               Update(DefaultResponse.headers, [n \in {"X-Old"} |-> "old"])}}
StatusCodes == {200, 202, 404}
Payloads ==
    {PayloadNone, Str("ok"), Json("doc"), Iterable(<<>>), Iterable(<<Raw("chunk")>>)}
HeaderArgs ==
    {NoHeaders, [n \in {"X-New"} |-> "new"], [n \in {ContentType} |-> "text/html"]}

\* A chain with no handlers, stopped or not, about to be called respond on.
RespondInit ==
    /\ request_handlers = <<>>
    /\ response_handlers = <<>>
    /\ finalizers = <<>>
    /\ exception_handlers = <<>>
    /\ stop_on_error = TRUE
    /\ raise_on_error = FALSE
    /\ stopped \in BOOLEAN
    /\ terminated = FALSE
    /\ finalized = FALSE
    /\ error = None
    /\ pc = "respond"
    /\ i = 1
    /\ j = 1
    /\ k = 1
    /\ f = 1
    /\ e = None
    /\ raising = None
    /\ calls = <<>>
    /\ caller = [p \in Recorded |-> NoHandler]
    /\ response \in Responses
    /\ respond_call = NoRespond
    /\ NoRouter
    /\ NoComponents

\* HandlerChain.respond
Respond ==
    /\ pc = "respond"
    /\ \E status_code \in StatusCodes, payload \in Payloads, headers \in HeaderArgs :
        LET r == RespondCall(response, status_code, payload, headers) IN
        /\ response' = AfterRespond(r)
        /\ respond_call' = r
    /\ stopped' = stop(stopped)
    /\ pc' = "responded"
    /\ UNCHANGED <<config, terminated, finalized, error, i, j, k, f, e, raising,
                   history, router, components>>

RespondNext == Respond

RespondSpec == RespondInit /\ [][RespondNext]_vars

\* C17 as stated: respond(status, payload=None) sets an empty body when the
\* response has no body content, and leaves the body unchanged when it has;
\* the status is set, the headers are merged and the chain is stopped.
C17_RespondKeepsBody ==
    (respond_call.called /\ respond_call.payload = PayloadNone) =>
        /\ response.response =
            IF Truthy(respond_call.before.response)
            THEN respond_call.before.response
            ELSE Body(<<>>)
        /\ response.status_code = respond_call.status_code
        /\ response.headers = Update(respond_call.before.headers, respond_call.headers)
        /\ stopped

\* C17, what respond does: with payload None and a body that has content,
\* the body is set to None (the content is dropped and the body is not a
\* list any more); with no content the body is the empty list.
C17_RespondDropsBody ==
    (respond_call.called /\ respond_call.payload = PayloadNone) =>
        /\ response.response =
            IF Truthy(respond_call.before.response) THEN NoneBody ELSE Body(<<>>)
        /\ response.status_code = respond_call.status_code
        /\ response.headers = Update(respond_call.before.headers, respond_call.headers)
        /\ stopped

\* C17 witness: respond was called without payload on a response whose body
\* had content, and the body is None afterwards.
C17_Witness ==
    /\ respond_call.called
    /\ respond_call.payload = PayloadNone
    /\ Truthy(respond_call.before.response)
    /\ response.response = NoneBody
    /\ response.status_code = respond_call.status_code

(***************************************************************************)
(* A model of rolo's Router (rolo/routing/router.py): threads that call    *)
(* add, add_rule, remove and dispatch on one Router concurrently.  Each    *)
(* thread runs one method; a step of a thread is one access to the shared  *)
(* state (the mutex, the url_map reference, a Map of the heap).            *)
(***************************************************************************)

Threads == 1..MaxThreads
Routes == {"/a", "/b"}
NoThread == 0
NoMap == 0

\* A werkzeug Rule: the route it matches and the Map it is bound to.
Rule(route, map) == [route |-> route, map |-> map]
\* Rule.__eq__: rules are equal when they match the same route, whatever Map
\* they are bound to.
EqSameObject(a, b) == a = b
Eq(a, b) == a.route = b.route
\* Rule.empty: an unbound copy of the rule.
empty(rule) == Rule(rule.route, NoMap)
\* Map.add: the rule is bound to the map and appended to its rules.
add(heap, map, rule) ==
    [heap EXCEPT ![map] = Append(@, Rule(rule.route, map))]
\* The routes of a list of rules.
RoutesOf(rules) == [n \in 1..Len(rules) |-> rules[n].route]
\* "rule in rules"
In(rule, rules) == \E n \in 1..Len(rules) : Eq(rules[n], rule)

\* A call of add or add_rule with a route, or of dispatch with a request
\* for a route.
Operation(kind, route) == [kind |-> kind, route |-> route, rules |-> <<>>]
\* A call of remove with a list of rules.
Remove(rules) == [kind |-> "remove", route |-> "", rules |-> rules]

\* The router methods a thread can run, each with the rule or the request.
Operations ==
    {Operation(m, r) : m \in {"add", "add_rule", "dispatch"}, r \in Routes}
        \cup {Remove(<<Rule(r, NoMap)>>) : r \in Routes}

\* The outcome of a method: nothing yet, the response of the dispatcher for
\* the matched endpoint, or an exception.
NoResult == [kind |-> "none", endpoint |-> ""]
Dispatched(rule) == [kind |-> "response", endpoint |-> rule.route]
Exception(name) == [kind |-> name, endpoint |-> ""]

\* A thread about to run the operation o.
Start(o) ==
    [op |-> o, pc |-> "start", new |-> NoMap, old |-> NoMap, cursor |-> 0,
     matcher |-> NoMap, at |-> 0, result |-> NoResult]

\* The tables a router has before the threads start: the routes registered
\* so far, each bound to the router's first Map.
InitialTables ==
    {<<>>, <<Rule("/a", 1)>>, <<Rule("/b", 1)>>, <<Rule("/a", 1), Rule("/b", 1)>>}

\* Router.__init__ and the registration of the first routes; the chain
\* variables are not used.
RouterInit ==
    /\ request_handlers = <<>>
    /\ response_handlers = <<>>
    /\ finalizers = <<>>
    /\ exception_handlers = <<>>
    /\ stop_on_error = TRUE
    /\ raise_on_error = FALSE
    /\ stopped = FALSE
    /\ terminated = FALSE
    /\ finalized = FALSE
    /\ error = None
    /\ pc = "router"
    /\ i = 1
    /\ j = 1
    /\ k = 1
    /\ f = 1
    /\ e = None
    /\ raising = None
    /\ calls = <<>>
    /\ caller = [p \in Recorded |-> NoHandler]
    /\ response = DefaultResponse
    /\ respond_call = NoRespond
    /\ \E table \in InitialTables :
        /\ maps = <<table>>
        /\ published = <<[map |-> 1, rules |-> table, by |-> NoThread]>>
    /\ url_map = 1
    /\ mutex = NoThread
    /\ threads \in [Threads -> {Start(o) : o \in Operations}]
    /\ returned = <<>>
    /\ NoComponents

chain == <<config, flags, control, history, output>>

\* "with self._mutex": whether thread t gets the (reentrant) lock.
MutexIgnored(t) == TRUE
MutexFree(t) == mutex = NoThread \/ mutex = t

\* _clone_map_without_rules(old): the new Map is a fresh object of the heap.
NewMapInPlace(old) == old
NewMap(old) == Len(maps) + 1
Allocate(heap, map) == IF map > Len(heap) THEN Append(heap, <<>>) ELSE heap

\* add, add_rule and remove enter "with self._mutex"
Acquire(t) ==
    /\ threads[t].pc = "start"
    /\ threads[t].op.kind \in {"add", "add_rule", "remove"}
    /\ MutexFree(t)
    /\ mutex' = t
    /\ threads' = [threads EXCEPT ![t].pc =
                        IF threads[t].op.kind = "remove" THEN "check" ELSE "clone"]
    /\ UNCHANGED <<chain, components, returned, url_map, maps, published>>

\* _add_rules and add_rule: new = _clone_map_with_rules(self.url_map), up to
\* the loop over the old rules
Clone(t) ==
    /\ threads[t].pc = "clone"
    /\ LET map == NewMap(url_map) IN
        /\ maps' = Allocate(maps, map)
        /\ threads' = [threads EXCEPT ![t].old = url_map, ![t].new = map,
                                      ![t].cursor = 1, ![t].pc = "copy"]
    /\ UNCHANGED <<chain, components, returned, url_map, mutex, published>>

\* _clone_map_with_rules: one iteration of "for old_rule in old.iter_rules()"
CopyRule(t) ==
    /\ threads[t].pc = "copy"
    /\ threads[t].cursor <= Len(maps[threads[t].old])
    /\ maps' = add(maps, threads[t].new, empty(maps[threads[t].old][threads[t].cursor]))
    /\ threads' = [threads EXCEPT ![t].cursor = @ + 1]
    /\ UNCHANGED <<chain, components, returned, url_map, mutex, published>>

\* _add_rules and add_rule: the clone is complete, new.add(rule)
AddRule(t) ==
    /\ threads[t].pc = "copy"
    /\ threads[t].cursor > Len(maps[threads[t].old])
    /\ maps' = add(maps, threads[t].new, Rule(threads[t].op.route, NoMap))
    /\ threads' = [threads EXCEPT ![t].pc = "swap"]
    /\ UNCHANGED <<chain, components, returned, url_map, mutex, published>>

\* _remove_rules: "for r in rules: if r not in old._rules", whether the loop
\* reaches its raise
MissingFirst(rules, table) == ~In(rules[1], table)
Missing(rules, table) == \E n \in 1..Len(rules) : ~In(rules[n], table)

\* _remove_rules: old = self.url_map; KeyError when one of the rules is not
\* in it, which leaves the with block; otherwise
\* new = _clone_map_without_rules(old)
Check(t) ==
    /\ threads[t].pc = "check"
    /\ IF ~Missing(threads[t].op.rules, maps[url_map])
       THEN LET map == NewMap(url_map) IN
            /\ maps' = Allocate(maps, map)
            /\ threads' = [threads EXCEPT ![t].old = url_map, ![t].new = map,
                                          ![t].cursor = 1, ![t].pc = "filter"]
            /\ UNCHANGED mutex
       ELSE /\ threads' = [threads EXCEPT ![t].old = url_map,
                                          ![t].result = Exception("KeyError"),
                                          ![t].pc = "done"]
            /\ mutex' = NoThread
            /\ UNCHANGED maps
    /\ UNCHANGED <<chain, components, returned, url_map, published>>

\* _remove_rules: one iteration of "for old_rule in old.iter_rules()"
FilterRule(t) ==
    /\ threads[t].pc = "filter"
    /\ threads[t].cursor <= Len(maps[threads[t].old])
    /\ LET old_rule == maps[threads[t].old][threads[t].cursor] IN
        maps' = IF In(old_rule, threads[t].op.rules)
                THEN maps
                ELSE add(maps, threads[t].new, empty(old_rule))
    /\ threads' = [threads EXCEPT ![t].cursor = @ + 1]
    /\ UNCHANGED <<chain, components, returned, url_map, mutex, published>>

\* self.url_map = new
Swap(t) ==
    /\ \/ threads[t].pc = "swap"
       \/ /\ threads[t].pc = "filter"
          /\ threads[t].cursor > Len(maps[threads[t].old])
    /\ url_map' = threads[t].new
    /\ published' = Append(published,
            [map |-> threads[t].new, rules |-> maps[threads[t].new], by |-> t])
    /\ threads' = [threads EXCEPT ![t].pc = "release"]
    /\ UNCHANGED <<chain, components, returned, maps, mutex>>

\* the with block is left
Release(t) ==
    /\ threads[t].pc = "release"
    /\ mutex' = NoThread
    /\ threads' = [threads EXCEPT ![t].pc = "done"]
    /\ UNCHANGED <<chain, components, returned, url_map, maps, published>>

\* dispatch: matcher = self.url_map.bind(...)
Bind(t) ==
    /\ threads[t].pc = "start"
    /\ threads[t].op.kind = "dispatch"
    /\ threads' = [threads EXCEPT ![t].matcher = url_map, ![t].pc = "match"]
    /\ UNCHANGED <<chain, components, returned, url_map, maps, mutex, published>>

\* The rules matcher.match looks at: those of the Map the matcher is bound to.
MatchLiveTable(t) == maps[url_map]
MatchTable(t) == maps[threads[t].matcher]

\* matcher.match: whether a rule of the table matches a request for the route
Matching(route, table) == \E n \in 1..Len(table) : table[n].route = route

\* dispatch: matcher.match(...), which raises NotFound when no rule matches,
\* and the call of the dispatcher with the matched endpoint
Match(t) ==
    /\ threads[t].pc = "match"
    /\ LET request == Rule(threads[t].op.route, NoMap)
           table == MatchTable(t)
       IN  threads' = [threads EXCEPT
                ![t].result = IF Matching(request.route, table) THEN Dispatched(request)
                              ELSE Exception("NotFound"),
                ![t].at = Len(published),
                ![t].pc = "done"]
    /\ UNCHANGED <<chain, components, returned, url_map, maps, mutex, published>>

RouterNext ==
    \E t \in Threads :
        \/ Acquire(t)
        \/ Clone(t)
        \/ CopyRule(t)
        \/ AddRule(t)
        \/ Check(t)
        \/ FilterRule(t)
        \/ Swap(t)
        \/ Release(t)
        \/ Bind(t)
        \/ Match(t)

RouterSpec == RouterInit /\ [][RouterNext]_vars

(***************************************************************************)
(* Properties of the Router                                                *)
(***************************************************************************)

\* How often a route occurs in a list of rules.
Count(route, rules) == Cardinality({n \in 1..Len(rules) : rules[n].route = route})
\* The threads whose add or add_rule of a route has assigned url_map.
Added(route) ==
    {t \in Threads : /\ threads[t].op.kind \in {"add", "add_rule"}
                     /\ threads[t].op.route = route
                     /\ threads[t].pc \in {"release", "done"}}
\* The request a dispatching thread matches, as a rule.
Request(t) == Rule(threads[t].op.route, NoMap)
\* The rules the Map a thread's matcher is bound to had when url_map was
\* assigned that Map.
Snapshot(t) ==
    LET n == CHOOSE m \in 1..Len(published) : published[m].map = threads[t].matcher
    IN  published[n].rules
\* The routes of the table that a mutation makes of a table.
Expected(o, routes) ==
    IF o.kind = "remove"
    THEN SelectSeq(routes, LAMBDA r : \A n \in 1..Len(o.rules) : o.rules[n].route # r)
    ELSE Append(routes, o.route)

\* C18: when the threads only call add and add_rule, no update is lost: the
\* current table holds every route registered before and, once for each call
\* that has assigned url_map, the route that call added.
C18_NoLostAdd ==
    (\A t \in Threads : threads[t].op.kind \in {"add", "add_rule"}) =>
        \A r \in Routes :
            Count(r, maps[url_map])
                = Count(r, published[1].rules) + Cardinality(Added(r))

\* C18 witness: every thread has added a route to a router that had routes
\* before, one with add and one with add_rule, and all calls have returned.
C18_Witness ==
    /\ \A t \in Threads : /\ threads[t].op.kind \in {"add", "add_rule"}
                          /\ threads[t].pc = "done"
    /\ \E t, u \in Threads : /\ threads[t].op.kind = "add"
                             /\ threads[u].op.kind = "add_rule"
    /\ published[1].rules # <<>>
    /\ Len(maps[url_map]) = Len(published[1].rules) + MaxThreads

\* C19: a dispatch matches against the table its matcher was bound to: it
\* returns the dispatcher's response for the matched endpoint when that
\* table held the route, also when a remove has assigned url_map a table
\* without the route in the meantime.
C19_DispatchUsesSnapshot ==
    \A t \in Threads :
        (threads[t].op.kind = "dispatch" /\ threads[t].pc = "done") =>
            threads[t].result =
                IF In(Request(t), Snapshot(t)) THEN Dispatched(Request(t))
                ELSE Exception("NotFound")

\* C19 witness: a dispatch matched after a remove had assigned url_map a
\* table without its route, and returned the response for the endpoint.
C19_Witness ==
    \E t, u \in Threads :
        /\ threads[t].op.kind = "dispatch"
        /\ threads[t].pc = "done"
        /\ threads[t].result = Dispatched(Request(t))
        /\ threads[t].at >= 2
        /\ published[threads[t].at].by = u
        /\ threads[u].op = Remove(<<Request(t)>>)
        /\ ~In(Request(t), published[threads[t].at].rules)

\* C20: a Map that url_map has referred to is never changed afterwards; each
\* assignment of url_map installs a new Map that is complete, i.e. holds the
\* rules of the table before it with the route added or removed, all bound
\* to it; url_map refers to such a Map at all times, and so does every
\* matcher of a dispatch.
C20_PublishedTableIsImmutable ==
    /\ \A n \in 1..Len(published) :
        /\ maps[published[n].map] = published[n].rules
        /\ \A m \in 1..Len(published) : published[m].map = published[n].map => m = n
        /\ \A x \in 1..Len(published[n].rules) :
            published[n].rules[x].map = published[n].map
        /\ n > 1 =>
            RoutesOf(published[n].rules)
                = Expected(threads[published[n].by].op, RoutesOf(published[n - 1].rules))
    /\ url_map = published[Len(published)].map
    /\ \A t \in Threads :
        threads[t].matcher # NoMap =>
            \E n \in 1..Len(published) : published[n].map = threads[t].matcher

\* C20 witness: a dispatch has bound its matcher and not matched yet while
\* another thread has copied part of the rules into a new Map that is not
\* yet assigned to url_map.
C20_Witness ==
    \E t, u \in Threads :
        /\ threads[t].pc = "match"
        /\ threads[u].pc \in {"copy", "filter"}
        /\ threads[u].cursor > 1
        /\ threads[u].cursor <= Len(maps[threads[u].old])
        /\ maps[threads[u].new] # <<>>
        /\ threads[u].new # url_map
        /\ threads[t].matcher = url_map

(***************************************************************************)
(* One client that calls add, remove and dispatch on a Router one after    *)
(* the other: the methods are those of the threads above, and a call       *)
(* starts when the call before it has returned or raised.  remove is       *)
(* called with the rules that add has returned.                            *)
(***************************************************************************)

MaxCalls == 5

\* The thread of the client.
Client == 1

\* A thread that runs no method.
Idle == [Start(Operation("none", "")) EXCEPT !.pc = "idle"]

\* The chain variables while no chain is modelled.
NoChain ==
    /\ request_handlers = <<>>
    /\ response_handlers = <<>>
    /\ finalizers = <<>>
    /\ exception_handlers = <<>>
    /\ stop_on_error = TRUE
    /\ raise_on_error = FALSE
    /\ stopped = FALSE
    /\ terminated = FALSE
    /\ finalized = FALSE
    /\ error = None
    /\ pc = "none"
    /\ i = 1
    /\ j = 1
    /\ k = 1
    /\ f = 1
    /\ e = None
    /\ raising = None
    /\ calls = <<>>
    /\ caller = [p \in Recorded |-> NoHandler]
    /\ response = DefaultResponse
    /\ respond_call = NoRespond

\* Router.__init__: an empty Map
RouterCallsInit ==
    /\ NoChain
    /\ maps = << <<>> >>
    /\ published = <<[map |-> 1, rules |-> <<>>, by |-> NoThread]>>
    /\ url_map = 1
    /\ mutex = NoThread
    /\ threads = [t \in Threads |-> Idle]
    /\ returned = <<>>
    /\ NoComponents

\* _add_rules: "return rules", the rule as new.add has bound it to the new Map
ReturnedRule(c) == Rule(c.op.route, c.new)

\* The rule objects the client holds: those add has returned.
Known ==
    {ReturnedRule(returned[n]) :
        n \in {m \in 1..Len(returned) : returned[m].op.kind = "add"}}
\* Router.remove: one rule, or a list of rules for different routes
RuleLists(held) ==
    {<<a>> : a \in held} \cup {l \in held \X held : l[1].route # l[2].route}

\* The calls of the client.
Calls(held) ==
    {Operation(m, r) : m \in {"add", "dispatch"}, r \in Routes}
        \cup {Remove(l) : l \in RuleLists(held)}

\* The client calls a method.
Invoke(t) ==
    /\ t = Client
    /\ \A u \in Threads : threads[u].pc = "idle"
    /\ Len(returned) < MaxCalls
    /\ \E o \in Calls(Known) : threads' = [threads EXCEPT ![t] = Start(o)]
    /\ UNCHANGED <<chain, components, returned, url_map, maps, mutex, published>>

\* The method returns to the client, or raises.
Return(t) ==
    /\ threads[t].pc = "done"
    /\ returned' = Append(returned, threads[t])
    /\ threads' = [threads EXCEPT ![t] = Idle]
    /\ UNCHANGED <<chain, components, url_map, maps, mutex, published>>

RouterCallsNext ==
    \/ RouterNext
    \/ \E t \in Threads : Invoke(t) \/ Return(t)

RouterCallsSpec == RouterCallsInit /\ [][RouterCallsNext]_vars

(***************************************************************************)
(* Properties of the calls of one client                                   *)
(***************************************************************************)

\* The rules a Map had when url_map was assigned it.
TableOf(map) ==
    published[CHOOSE n \in 1..Len(published) : published[n].map = map].rules

\* C21: remove raises the KeyError "no such rule" exactly when one of the
\* given rules is not in the table it was called on, and a remove that
\* raised has left the table as it was: url_map refers to the same Map, with
\* the same rules, those of the given rules that were present included.
C21_FailedRemoveChangesNothing ==
    \A t \in Threads :
        (threads[t].op.kind = "remove" /\ threads[t].pc = "done") =>
            LET c == threads[t]
                before == TableOf(c.old)
                missing == \E n \in 1..Len(c.op.rules) :
                                Count(c.op.rules[n].route, before) = 0
            IN  /\ c.result = Exception("KeyError") <=> missing
                /\ missing =>
                    /\ url_map = c.old
                    /\ maps[url_map] = before
                    /\ published[Len(published)].map = c.old

\* C21 witness: a remove of two rules, one in the table and one not, has
\* raised, and the rule that was in the table still is.
C21_Witness ==
    \E t \in Threads :
        /\ threads[t].op.kind = "remove"
        /\ threads[t].pc = "done"
        /\ threads[t].result = Exception("KeyError")
        /\ Len(threads[t].op.rules) = 2
        /\ \E n \in 1..2 : Count(threads[t].op.rules[n].route, maps[url_map]) > 0

\* Call n of the client has removed the rule: it was called with the rule
\* alone, or with a list that holds it and returned without raising.
Removed(n, rule) ==
    /\ returned[n].op.kind = "remove"
    /\ \E x \in 1..Len(returned[n].op.rules) : returned[n].op.rules[x] = rule
    /\ Len(returned[n].op.rules) = 1 \/ returned[n].result = NoResult

\* C22: a dispatch of a request for the route of R, called after add has
\* returned R, returns the dispatcher's response as long as no remove of a
\* rule equal to R has returned in between; called after remove(R) with the
\* object R that add returned, whatever calls were made between that add and
\* that remove, it raises NotFound as long as the route was not added again.
C22_AddThenRemove ==
    \A d \in 1..Len(returned) :
        returned[d].op.kind = "dispatch" =>
            \A a \in 1..(d - 1) :
                (returned[a].op = Operation("add", returned[d].op.route)) =>
                    LET R == ReturnedRule(returned[a]) IN
                    /\ (\A n \in (a + 1)..(d - 1) :
                            ~(/\ returned[n].op.kind = "remove"
                              /\ returned[n].result = NoResult
                              /\ In(R, returned[n].op.rules)))
                        => returned[d].result = Dispatched(Rule(R.route, NoMap))
                    /\ \A m \in (a + 1)..(d - 1) :
                        (/\ Removed(m, R)
                         /\ \A n \in (m + 1)..(d - 1) :
                                returned[n].op # Operation("add", R.route))
                            => returned[d].result = Exception("NotFound")

\* C22 witness: add returned R, a dispatch for its route succeeded, another
\* route was added (which replaces the table by a copy), remove(R) returned
\* and a dispatch for the route of R raised NotFound.
C22_Witness ==
    /\ Len(returned) = 5
    /\ returned[1].op = Operation("add", "/a")
    /\ returned[2].op = Operation("dispatch", "/a")
    /\ returned[2].result = Dispatched(Rule("/a", NoMap))
    /\ returned[3].op = Operation("add", "/b")
    /\ returned[4].op = Remove(<<ReturnedRule(returned[1])>>)
    /\ returned[4].result = NoResult
    /\ returned[5].op = Operation("dispatch", "/a")
    /\ returned[5].result = Exception("NotFound")

(***************************************************************************)
(* Router.add with a rule factory that yields several rules                *)
(* (rolo/routing/rules.py, rolo/routing/resource.py): an object that is    *)
(* scanned for annotated members, a Resource, a function annotated with    *)
(* several routes, and a list of routes.                                   *)
(***************************************************************************)

MaxRules == 3

\* The values of "methods" of a route: None (the empty set here) or a list
\* of HTTP methods.
MethodLists == {{}, {"HEAD"}, {"GET"}, {"POST"}, {"GET", "HEAD"}}

\* _RuleAttributes of an endpoint
RuleAttributes(endpoint, methods) == [endpoint |-> endpoint, methods |-> methods]

\* The rule_attributes of up to n endpoints, endpoint after endpoint: the
\* members of a scanned object in the order of inspect.getmembers, the
\* routes of a list, or the annotations of one function.
Attributes(n) ==
    {a \in [1..n -> {RuleAttributes(x, m) : x \in 1..n, m \in MethodLists}] :
        /\ a[1].endpoint = 1
        /\ \A x \in 2..n : a[x].endpoint \in {a[x - 1].endpoint, a[x - 1].endpoint + 1}}

\* "on_head", "on_get", ... as the HTTP methods they stand for
resource_methods == <<"HEAD", "GET", "POST">>

\* The arguments of add.
Factory(form, attributes, members) ==
    [form |-> form, attributes |-> attributes, members |-> members]
Factories ==
    UNION {{Factory(form, a, {}) : form \in {"object", "list"}, a \in Attributes(n)}
            : n \in 1..MaxRules}
    \cup UNION {{Factory("function", a, {}) :
                    a \in {b \in Attributes(n) : \A x \in 1..n : b[x].endpoint = 1}}
            : n \in 1..MaxRules}
    \cup {Factory("resource", <<>>, members) :
            members \in SUBSET {resource_methods[n] : n \in 1..Len(resource_methods)}
                            \ {{}}}

\* werkzeug's Rule as _EndpointRule.get_rules creates it
EndpointRule(endpoint, methods) ==
    [endpoint |-> endpoint, methods |-> methods, bound |-> FALSE]

\* "attr.methods and "HEAD" in attr.methods"
HasHead(attr) == attr.methods # {} /\ "HEAD" \in attr.methods

\* The rules of a list of attributes, in its order.
RulesOf(attributes) ==
    [n \in 1..Len(attributes) |->
        EndpointRule(attributes[n].endpoint, attributes[n].methods)]

\* _EndpointsObject.get_rules
EndpointsObject(attributes) ==
    RulesOf(SelectSeq(attributes, HasHead))
        \o RulesOf(SelectSeq(attributes, LAMBDA attr : ~HasHead(attr)))

\* _EndpointFunction.get_rules
EndpointFunction(attributes) == RulesOf(attributes)

\* RuleGroup.get_rules over [RuleAdapter(rule) for rule in args[0]]
RuleGroup(attributes) == RulesOf(attributes)

\* Resource.get_rules
Resource(members) ==
    LET names == SelectSeq(resource_methods, LAMBDA name : name \in members)
    IN  [n \in 1..Len(names) |-> EndpointRule(names[n], {names[n]})]

\* RuleAdapter.get_rules
get_rules(factory) ==
    CASE factory.form = "object" -> EndpointsObject(factory.attributes)
      [] factory.form = "function" -> EndpointFunction(factory.attributes)
      [] factory.form = "list" -> RuleGroup(factory.attributes)
      [] factory.form = "resource" -> Resource(factory.members)

\* Map.add of the rules, in order
Bound(rules) == [n \in 1..Len(rules) |-> [rules[n] EXCEPT !.bound = TRUE]]

\* A router without routes, and the argument of the call of add
AddInit ==
    /\ NoChain
    /\ NoRouter
    /\ NoGateway
    /\ rule_factory \in Factories
    /\ url_rules = <<>>
    /\ add_result = <<>>

\* Router.add / Router._add_rules
Add ==
    /\ add_result = <<>>
    /\ LET rules == Bound(get_rules(rule_factory)) IN
        /\ url_rules' = url_rules \o rules
        /\ add_result' = rules
    /\ UNCHANGED <<chain, router, serve, rule_factory>>

AddNext == Add

AddSpec == AddInit /\ [][AddNext]_vars

\* The rules of a list are ordered HEAD first: every rule whose methods
\* include HEAD comes before every rule whose methods do not.
HeadFirst(rules) ==
    \A x, y \in 1..Len(rules) :
        ("HEAD" \in rules[x].methods /\ "HEAD" \notin rules[y].methods) => x < y

\* C23, as stated: whatever the form of the argument of add, the rules it
\* registers and returns are ordered HEAD first.
C23_HeadFirstInEveryForm ==
    add_result # <<>> => HeadFirst(url_rules) /\ HeadFirst(add_result)

\* C23, what add does: the rules of a scanned object and of a Resource are
\* registered and returned HEAD first; those of a function with several
\* routes and of a list of routes in the order they were given.
C23_HeadFirstWhenScanned ==
    add_result # <<>> =>
        /\ url_rules = add_result
        /\ rule_factory.form \in {"object", "resource"} => HeadFirst(add_result)
        /\ rule_factory.form \in {"function", "list"} =>
            \A n \in 1..Len(add_result) :
                add_result[n].methods = rule_factory.attributes[n].methods

\* C23 witness: add was called with an object whose first annotated member
\* has no HEAD route and whose second has one, and returned the HEAD rule
\* first.
C23_Witness ==
    /\ rule_factory.form = "object"
    /\ Len(rule_factory.attributes) >= 2
    /\ ~HasHead(rule_factory.attributes[1])
    /\ HasHead(rule_factory.attributes[2])
    /\ add_result # <<>>
    /\ "HEAD" \in add_result[1].methods
    /\ add_result[1].endpoint = 2

(***************************************************************************)
(* The Gateway (rolo/gateway/gateway.py) with handler objects: functions,  *)
(* the composite handlers of rolo/gateway/chain.py and the RouterHandler   *)
(* of rolo/gateway/handlers.py.  Every call of process creates a           *)
(* HandlerChain and a RequestContext on the heap; one step of a call is    *)
(* the invocation of one handler of the gateway's lists.  What a handler   *)
(* function does is fixed when the gateway is constructed.                 *)
(***************************************************************************)

\* The largest number of calls of Gateway.process served concurrently or in
\* sequence.
MaxRequests == 2

\* The largest number of handlers in a composite handler.
MaxMembers == 2

\* The paths of the HTTP requests and of the websocket requests.
HttpRequests == Routes \cup {"/boom", "/throw"}
WebSocketRequests == {"/ws"}
Requests == HttpRequests \cup WebSocketRequests

\* A handler function: what it does depends on the request only.  It can
\* call the chain primitives ("stop", "terminate", "throw") and respond
\* ("respond"), set an attribute of the context ("set"), accept, reject or
\* close the websocket of the request, and raise ("raise").
Function(name, does) == [kind |-> "function", name |-> name, does |-> does]
Always(acts) == [p \in Requests |-> acts]
OnWebSocket(acts) == [p \in Requests |-> IF p \in WebSocketRequests THEN acts ELSE {}]
ByPath ==
    [p \in Requests |-> CASE p = "/b" -> {"set", "terminate"}
                          [] p = "/boom" -> {"raise"}
                          [] p = "/throw" -> {"set", "stop", "throw"}
                          [] OTHER -> {}]

\* CompositeHandler(return_on_stop) with its handlers appended, and its
\* subclasses; the composites that call their handlers with call_safe are of
\* kind "safe".
CompositeHandler(name, handlers, return_on_stop) ==
    [kind |-> "composite", name |-> name, handlers |-> handlers,
     return_on_stop |-> return_on_stop]
CompositeResponseHandler(name, handlers) == CompositeHandler(name, handlers, FALSE)
CompositeFinalizer(name, handlers) ==
    [CompositeResponseHandler(name, handlers) EXCEPT !.kind = "safe"]
CompositeExceptionHandler(name, handlers) ==
    [kind |-> "safe", name |-> name, handlers |-> handlers, return_on_stop |-> FALSE]

\* RouterHandler(router, respond_not_found); the router is given by the rules
\* of its Map.
RouterHandler(name, rules, respond_not_found) ==
    [kind |-> "router", name |-> name, router |-> rules,
     respond_not_found |-> respond_not_found]

\* Gateway(request_handlers, response_handlers, finalizers, exception_handlers)
Gateway(request, response_, finalizer, exception) ==
    [request_handlers |-> request, response_handlers |-> response_,
     finalizers |-> finalizer, exception_handlers |-> exception]

\* HandlerChain.__init__: the state of a new chain (its handler lists are the
\* list objects of the gateway).  context and response are references: to a
\* RequestContext of the heap and to the response object of a call.
HandlerChain ==
    [stopped |-> FALSE, terminated |-> FALSE, finalized |-> FALSE,
     error |-> None, response |-> 0, context |-> 0]

\* RequestContext(request): the request and no other attribute.
RequestContext(request) == [request |-> request, attributes |-> {}]

\* The websocket of a WebSocketRequest: the event it delivers when the
\* request is accepted, _upgraded and _rejected, and (history) the calls made
\* on the socket with who made them.
TheGateway == Handler("gateway", 0)
WebSocket(event) ==
    [event |-> event, upgraded |-> FALSE, rejected |-> FALSE, calls |-> <<>>]
NoSocket == WebSocket("none")
SocketCall(socket, method, by, sent) ==
    [socket EXCEPT !.calls = Append(@, [method |-> method, by |-> by, sent |-> sent])]

\* WebSocketRequest.reject(resp), accept and close, called by "by": the
\* socket afterwards and whether the method raised.
rejectUnchecked(socket, by, resp) ==
    [socket |-> [SocketCall(socket, "reject", by, resp) EXCEPT !.rejected = TRUE],
     raised |-> FALSE]
reject(socket, by, resp) ==
    IF socket.upgraded \/ socket.rejected
    THEN [socket |-> socket, raised |-> TRUE]
    ELSE [socket |-> [SocketCall(socket, "reject", by, resp) EXCEPT !.rejected = TRUE],
          raised |-> FALSE]
accept(socket, by) ==
    IF socket.upgraded \/ socket.rejected
    THEN [socket |-> socket, raised |-> TRUE]
    ELSE IF socket.event = "CreateConnection"
    THEN [socket |-> [SocketCall(socket, "accept", by, <<>>) EXCEPT !.upgraded = TRUE],
          raised |-> FALSE]
    ELSE [socket |-> SocketCall(socket, "close", by, <<>>), raised |-> TRUE]
close(socket, by) ==
    IF socket.rejected \/ socket.upgraded
    THEN [socket |-> socket, raised |-> FALSE]
    ELSE [socket |-> SocketCall(socket, "close", by, <<>>), raised |-> FALSE]

\* What a handler is called with: the chain object, the response object, the
\* websocket of the request and the attributes of the context; "invoked" is
\* the history of the invocations made for the call.
Environment(c, resp, socket, attributes, invoked) ==
    [chain |-> c, response |-> resp, socket |-> socket,
     attributes |-> attributes, invoked |-> invoked]

\* History: one invocation of a handler, directly by the chain or within a
\* composite handler, with the primitives it called and whether it raised.
Entry(name, within, did, failed) ==
    [handler |-> name, within |-> within, did |-> did, raised |-> failed]

\* The outcome of an invocation: the environment afterwards and the
\* exception that left the handler (None: the handler returned).
Outcome(env, x) == [env |-> env, raised |-> x]

\* A handler function is called for the request of call "id": it uses the
\* websocket first (an exception of the websocket method leaves the
\* function), then the context, the response and the chain, and raises last.
CallFunction(h, within, env, request, id) ==
    LET acts == h.does[request]
        ws == IF "accept" \in acts THEN accept(env.socket, h.name)
              ELSE IF "reject" \in acts THEN reject(env.socket, h.name, env.response)
              ELSE IF "close" \in acts THEN close(env.socket, h.name)
              ELSE [socket |-> env.socket, raised |-> FALSE]
        done == IF ws.raised THEN {} ELSE acts
        c == [env.chain EXCEPT
                !.stopped = IF {"stop", "respond"} \cap done # {} THEN stop(@) ELSE @,
                !.terminated = IF "terminate" \in done THEN terminate(@) ELSE @,
                !.error = IF "throw" \in done THEN throw(@, Thrown(h.name)) ELSE @]
        resp == IF "respond" \in done
                THEN respond(env.response, 202, Str("ok"), NoHeaders)
                ELSE env.response
        attributes == IF "set" \in done
                      THEN env.attributes \cup {[key |-> h.name, value |-> id]}
                      ELSE env.attributes
        x == IF ws.raised THEN [kind |-> "ValueError", by |-> h.name]
             ELSE IF "raise" \in acts THEN Raised(h.name)
             ELSE None
    IN  Outcome(Environment(c, resp, ws.socket, attributes,
                            Append(env.invoked, Entry(h.name, within, done, x # None))),
                x)

\* Router.dispatch on a router with the given rules: the endpoint of a route
\* answers with its route as a JSON document, the endpoint of "/boom" raises.
dispatch(rules, request) ==
    IF ~Matching(request, rules) THEN Exception("NotFound")
    ELSE IF request = "/boom" THEN Exception("error")
    ELSE Dispatched(Rule(request, NoMap))
RouterResponse(result) ==
    [status_code |-> 200, response |-> Body(<<Dumps(result.endpoint)>>),
     headers |-> [n \in {ContentType} |-> "application/json"]]

\* Response.update_from (the response objects of the model have no close
\* callbacks)
update_from(resp, other) ==
    [status_code |-> other.status_code, response |-> other.response,
     headers |-> Update(resp.headers, other.headers)]

\* RouterHandler.__call__
StopsAlways(found, responds) == TRUE
Stops(found, responds) == found \/ responds
RouterHandlerCall(h, env, request) ==
    LET result == dispatch(h.router, request)
        found == result.kind = "response"
        responds == result.kind = "NotFound" /\ h.respond_not_found
        resp == IF found THEN update_from(env.response, RouterResponse(result))
                ELSE IF responds
                THEN respond(env.response, 404, Str("not found"), NoHeaders)
                ELSE env.response
        c == [env.chain EXCEPT
                !.stopped = IF Stops(found, responds) THEN stop(@) ELSE @]
        x == IF result.kind \in {"response", "NotFound"} THEN None ELSE Raised(h.name)
        did == IF Stops(found, responds) THEN {"stop"} ELSE {}
    IN  Outcome(Environment(c, resp, env.socket, env.attributes,
                            Append(env.invoked, Entry(h.name, NoHandler, did, x # None))),
                x)

\* CompositeHandler.__call__ from its handler n on: an exception of a handler
\* leaves the composite; the composite returns when the chain is terminated,
\* and when it is stopped and the composite returns on stop.
ReturnsOnStopAlways(h, c) == c.stopped
ReturnsOnStop(h, c) == c.stopped /\ h.return_on_stop
LeavesNever(r) == FALSE
Leaves(r) == r.raised # None
RECURSIVE CompositeHandlerCall(_, _, _, _, _)
CompositeHandlerCall(h, n, env, request, id) ==
    IF n > Len(h.handlers) THEN Outcome(env, None)
    ELSE LET r == CallFunction(h.handlers[n], h.name, env, request, id)
         IN  IF Leaves(r) THEN r
             ELSE IF r.env.chain.terminated THEN r
             ELSE IF ReturnsOnStop(h, r.env.chain) THEN r
             ELSE CompositeHandlerCall(h, n + 1, r.env, request, id)

\* call_safe: the exception of the function called is logged
call_safePropagates(r) == r
call_safe(r) == [r EXCEPT !.raised = None]

\* CompositeExceptionHandler.__call__ and CompositeFinalizer.__call__ from
\* the handler n on
RECURSIVE CompositeSafeCall(_, _, _, _, _)
CompositeSafeCall(h, n, env, request, id) ==
    IF n > Len(h.handlers) THEN Outcome(env, None)
    ELSE LET r == call_safe(CallFunction(h.handlers[n], h.name, env, request, id))
         IN  IF r.raised # None THEN r
             ELSE CompositeSafeCall(h, n + 1, r.env, request, id)

\* HandlerChain._call_response_handlers over the given handlers from the
\* handler n on: the loop ends when the chain is terminated, the exception of
\* a handler is logged.  ("within" names the list in the history.)
RECURSIVE call_response_handlers(_, _, _, _, _, _)
call_response_handlers(handlers, within, n, env, request, id) ==
    IF n > Len(handlers) THEN env
    ELSE IF env.chain.terminated THEN env
    ELSE LET r == CallFunction(handlers[n], within, env, request, id)
         IN  call_response_handlers(
                handlers, within, n + 1,
                [r.env EXCEPT !.chain.error = Logged(@, r.raised)], request, id)

\* The invocation of a composite handler, recorded after those of its
\* handlers.
Composite(h, r) ==
    [r EXCEPT !.env.invoked =
        Append(@, Entry(h.name, NoHandler, {}, r.raised # None))]

\* handler(chain, context, response), for each kind of handler object
CallHandler(h, env, request, id) ==
    CASE h.kind = "function" -> CallFunction(h, NoHandler, env, request, id)
      [] h.kind = "router" -> RouterHandlerCall(h, env, request)
      [] h.kind = "composite" ->
            Composite(h, CompositeHandlerCall(h, 1, env, request, id))
      [] h.kind = "safe" ->
            Composite(h, CompositeSafeCall(h, 1, env, request, id))

\* "last" is history: the last invocation the chain made, with the chain
\* object and the response before it and when the handler returned or raised.
\* A thread that serves no request.
NoCall ==
    [kind |-> "none", id |-> 0, request |-> "", at |-> "idle", i |-> 1, r |-> 0,
     e |-> None, raising |-> None, chain |-> 0, context |-> 0,
     response |-> DefaultResponse, socket |-> NoSocket, invoked |-> <<>>,
     last |-> [handler |-> NoHandler, raised |-> FALSE, before |-> <<>>,
               after |-> <<>>]]

\* The position of handle: the loop it is in (at), the position of that loop
\* (i), the position of the request-handler loop while the exception
\* handlers run (r).  Settle moves a position to the next invocation of a
\* handler, or to the end of handle.
RECURSIVE Settle(_, _)
Settle(s, c) ==
    CASE s.at = "request" ->
            IF s.i <= Len(gateway.request_handlers) THEN s
            ELSE Settle([s EXCEPT !.at = "response", !.i = 1], c)
      [] s.at = "exception" ->
            IF s.i <= Len(gateway.exception_handlers) THEN s
            ELSE Settle([s EXCEPT !.at = "decide"], c)
      [] s.at = "decide" ->
            LET d == Decide(c.error, c.terminated, c.stopped)
            IN  Settle([s EXCEPT !.at = NextPc(d),
                                 !.i = IF d = "continue" THEN s.r + 1 ELSE 1,
                                 !.raising = IF d = "raise" THEN c.error ELSE None], c)
      [] s.at = "response" ->
            IF s.i <= Len(gateway.response_handlers) /\ ~c.terminated THEN s
            ELSE Settle([s EXCEPT !.at = "finalizers", !.i = 1], c)
      [] s.at = "finalizers" ->
            IF ~c.finalized /\ s.i <= Len(gateway.finalizers) THEN s
            ELSE [s EXCEPT !.at = IF s.raising # None THEN "raised" ELSE "returned"]
      [] OTHER -> s

\* Gateway.new_chain: a new HandlerChain on the heap (the heap afterwards;
\* the new chain is its last object).
new_chainReused(heap) == IF heap = <<>> THEN Append(heap, HandlerChain) ELSE heap
new_chain(heap) == Append(heap, HandlerChain)

\* Gateway.process(request, response) up to the first invocation of a
\* handler by handle.
Serve(t, kind, request, resp, socket) ==
    LET heap == new_chain(chains)
        c == Len(heap)
        x == Len(contexts) + 1
        entered == [heap[c] EXCEPT !.context = x, !.response = x]
        s == [NoCall EXCEPT !.kind = kind, !.id = x, !.request = request,
                            !.at = "request", !.chain = c, !.context = x,
                            !.response = resp, !.socket = socket]
    IN  /\ serving[t].at \in {"idle", "returned", "raised", "accepted", "failed"}
        /\ Len(contexts) < MaxRequests
        /\ chains' = [heap EXCEPT ![c] = entered]
        /\ contexts' = Append(contexts, RequestContext(request))
        /\ serving' = [serving EXCEPT ![t] = Settle(s, entered)]
        /\ UNCHANGED <<chain, router, adding, gateway, sockets, units>>

\* The web server calls process with a request and a new response.
Process(t) ==
    \E request \in HttpRequests :
        Serve(t, "process", request, DefaultResponse, NoSocket)

\* Gateway.accept up to the first invocation of a handler: Response(status=101)
Accept(t) ==
    \E request \in WebSocketRequests, event \in {"CreateConnection", "Message"} :
        Serve(t, "accept", request, [DefaultResponse EXCEPT !.status_code = 101],
              WebSocket(event))

\* The handler handle invokes next.
Current(s) ==
    CASE s.at = "request" -> gateway.request_handlers[s.i]
      [] s.at = "exception" -> gateway.exception_handlers[s.i]
      [] s.at = "response" -> gateway.response_handlers[s.i]
      [] s.at = "finalizers" -> gateway.finalizers[s.i]

\* handle invokes the next handler and goes on to where it invokes the one
\* after it: the except-branch after a request handler, the decision on the
\* next step, the ends of the loops.
Handle(t) ==
    LET s == serving[t]
        h == Current(s)
        before == Environment(chains[s.chain], s.response, s.socket,
                              contexts[s.context].attributes, s.invoked)
        r == CallHandler(h, before, s.request, s.id)
        failed == r.raised # None
        c == IF s.at = "request" /\ failed
             THEN [r.env.chain EXCEPT !.error = ErrorOnException(@, r.raised),
                                      !.stopped = StoppedOnException(@)]
             ELSE [r.env.chain EXCEPT !.error = Logged(@, r.raised)]
        moved == IF s.at = "request"
                 THEN IF failed
                      THEN [s EXCEPT !.at = "exception", !.i = 1, !.r = s.i,
                                     !.e = r.raised]
                      ELSE [s EXCEPT !.at = "decide", !.r = s.i]
                 ELSE [s EXCEPT !.i = @ + 1]
        result == [moved EXCEPT
                      !.response = r.env.response,
                      !.socket = r.env.socket,
                      !.invoked = r.env.invoked,
                      !.last = [handler |-> h.name, raised |-> failed,
                                before |-> [chain |-> before.chain,
                                            response |-> before.response,
                                            socket |-> before.socket],
                                after |-> [chain |-> r.env.chain,
                                           response |-> r.env.response,
                                           socket |-> r.env.socket]]]
    IN  /\ s.at \in {"request", "exception", "response", "finalizers"}
        /\ chains' = [chains EXCEPT ![s.chain] = c]
        /\ contexts' = [contexts EXCEPT ![s.context].attributes = r.env.attributes]
        /\ serving' = [serving EXCEPT ![t] = Settle(result, c)]
        /\ UNCHANGED <<chain, router, adding, gateway, sockets, units>>

\* Gateway.accept after process has returned: the populated response is sent
\* unless the websocket was accepted or rejected (is_upgraded, is_rejected).
\* An exception of request.reject leaves accept ("failed").
PopulatedAlways(resp) == TRUE
Populated(resp) == resp.status_code # 101
UnsettledAlways(socket) == TRUE
Unsettled(socket) == ~socket.upgraded /\ ~socket.rejected
Accepted(t) ==
    LET s == serving[t]
        sends == Populated(s.response) /\ Unsettled(s.socket)
        r == reject(s.socket, TheGateway, s.response)
    IN  /\ s.kind = "accept"
        /\ s.at = "returned"
        /\ serving' = [serving EXCEPT
                          ![t].at = IF sends /\ r.raised THEN "failed" ELSE "accepted",
                          ![t].socket = IF sends THEN r.socket ELSE @]
        /\ UNCHANGED <<chain, router, adding, gateway, chains, contexts, sockets, units>>

\* A handler function that does nothing.
Plain(list, pos) == Function(Handler(list, pos), Always({}))

\* Gateway.__init__, and the threads of the web server: the first request
\* handler of the gateway does what the path of the request says.
GatewayInit ==
    /\ NoChain
    /\ NoRouter
    /\ NoAdd
    /\ gateway =
            Gateway(<<Function(Handler("request", 1), ByPath), Plain("request", 2)>>,
                    <<Plain("response", 1)>>,
                    <<Plain("finalizer", 1)>>,
                    <<Plain("exception", 1)>>)
    /\ chains = <<>>
    /\ contexts = <<>>
    /\ serving = [t \in Threads |-> NoCall]
    /\ listener = <<>>
    /\ channel = <<>>
    /\ dispatching = <<>>
    /\ context = <<>>
    /\ removal = <<>>

GatewayNext == \E t \in Threads : Process(t) \/ Handle(t)

GatewaySpec == GatewayInit /\ [][GatewayNext]_vars

(***************************************************************************)
(* One request served by a gateway whose lists hold a composite handler, a *)
(* RouterHandler or handlers that use the websocket of the request.        *)
(***************************************************************************)

\* The handlers appended to a composite handler: each of them does nothing,
\* stops or terminates the chain, raises, or does both.
Members ==
    UNION {{[n \in 1..m |-> Function(Handler("member", n), Always(b[n]))] :
                b \in [1..m -> {{}, {"stop"}, {"terminate"}, {"raise"},
                                {"stop", "raise"}, {"terminate", "raise"}}]} :
            m \in 1..MaxMembers}

\* The gateways with a composite handler: a CompositeHandler between two
\* request handlers, a CompositeResponseHandler before a response handler, a
\* CompositeFinalizer before a finalizer, a CompositeExceptionHandler before
\* an exception handler.  The first request handler does what the path of
\* the request says.
CompositeGateways ==
    {Gateway(<<Function(Handler("request", 1), ByPath),
               CompositeHandler(Handler("request", 2), m, return_on_stop),
               Plain("request", 3)>>,
             <<Plain("response", 1)>>,
             <<Plain("finalizer", 1)>>,
             <<Plain("exception", 1), Plain("exception", 2)>>) :
        m \in Members, return_on_stop \in BOOLEAN}
    \cup
    {Gateway(<<Function(Handler("request", 1), ByPath)>>,
             <<CompositeResponseHandler(Handler("response", 1), m),
               Plain("response", 2)>>,
             <<Plain("finalizer", 1)>>,
             <<Plain("exception", 1)>>) : m \in Members}
    \cup
    {Gateway(<<Function(Handler("request", 1), ByPath)>>,
             <<Plain("response", 1)>>,
             <<CompositeFinalizer(Handler("finalizer", 1), m),
               Plain("finalizer", 2)>>,
             <<Plain("exception", 1)>>) : m \in Members}
    \cup
    {Gateway(<<Function(Handler("request", 1), ByPath)>>,
             <<Plain("response", 1)>>,
             <<Plain("finalizer", 1)>>,
             <<CompositeExceptionHandler(Handler("exception", 1), m),
               Plain("exception", 2)>>) : m \in Members}

\* The gateways that serve a router: Gateway(request_handlers=[
\* RouterHandler(router, respond_not_found), handler], ...)
RouterGateways ==
    {Gateway(<<RouterHandler(Handler("request", 1), rules, respond_not_found),
               Plain("request", 2)>>,
             <<Plain("response", 1)>>,
             <<Plain("finalizer", 1)>>,
             <<Plain("exception", 1)>>) :
        rules \in {<<Rule("/a", NoMap)>>, <<Rule("/a", NoMap), Rule("/boom", NoMap)>>},
        respond_not_found \in BOOLEAN}

\* The gateways whose request handlers accept, reject or close the websocket
\* of the request, and respond.
WebSocketGateways ==
    {Gateway(handlers, <<>>, <<Plain("finalizer", 1)>>, <<>>) :
        handlers \in UNION {{[n \in 1..m |->
                                Function(Handler("request", n), OnWebSocket(a[n]))] :
                                a \in [1..m -> {{}, {"accept"}, {"reject"}, {"close"},
                                                {"respond"}, {"accept", "respond"},
                                                {"reject", "respond"}}]} :
                            m \in 1..MaxHandlers}}

\* Gateway.__init__, and the thread of the web server
HandlersInit ==
    /\ NoChain
    /\ NoRouter
    /\ NoAdd
    /\ gateway \in CompositeGateways \cup RouterGateways \cup WebSocketGateways
    /\ chains = <<>>
    /\ contexts = <<>>
    /\ serving = [t \in {Client} |-> NoCall]
    /\ listener = <<>>
    /\ channel = <<>>
    /\ dispatching = <<>>
    /\ context = <<>>
    /\ removal = <<>>

\* The web server passes one request to the gateway.
ProcessOnce(t) == serving[t].at = "idle" /\ Process(t)
AcceptOnce(t) == serving[t].at = "idle" /\ Accept(t)

HandlersNext ==
    \E t \in {Client} : ProcessOnce(t) \/ AcceptOnce(t) \/ Handle(t) \/ Accepted(t)

HandlersSpec == HandlersInit /\ [][HandlersNext]_vars

(***************************************************************************)
(* WebSocketRequest.listener (rolo/websocket/request.py): the application  *)
(* that wraps a function of the request.                                   *)
(***************************************************************************)

\* The largest number of calls the wrapped function makes on the request.
MaxOps == 2

\* The wrapped function from its call n on: it calls accept, reject and
\* close on the request, one after the other, and then returns or raises
\* ("ends"); an exception of a call on the request leaves the function.
RECURSIVE fn(_, _, _)
fn(l, n, socket) ==
    IF n > Len(l.ops) THEN [socket |-> socket, raised |-> l.ends]
    ELSE LET r == CASE l.ops[n] = "accept" -> accept(socket, Handler("fn", n))
                    [] l.ops[n] = "reject" ->
                            reject(socket, Handler("fn", n), DefaultResponse)
                    [] OTHER -> close(socket, Handler("fn", n))
         IN  IF r.raised
             THEN [socket |-> r.socket,
                   raised |-> IF socket.upgraded \/ socket.rejected
                              THEN "ValueError" ELSE "WebSocketProtocolError"]
             ELSE fn(l, n + 1, r.socket)

\* A function is wrapped and the server passes a websocket to the
\* application.
ListenerInit ==
    /\ NoChain
    /\ NoRouter
    /\ NoAdd
    /\ gateway = <<>>
    /\ chains = <<>>
    /\ contexts = <<>>
    /\ serving = <<>>
    /\ listener \in
            [ops : UNION {[1..m -> {"accept", "reject", "close"}] : m \in 0..MaxOps},
             ends : {"return", "HTTPException", "Exception"},
             socket : {WebSocket("CreateConnection"), WebSocket("Message")},
             at : {"idle"}, raised : {"return"}, escaped : {"return"}]
    /\ channel = <<>>
    /\ dispatching = <<>>
    /\ context = <<>>
    /\ removal = <<>>

\* application: "request = cls(args[-1])" and the call of the function
Application ==
    LET r == fn(listener, 1, listener.socket)
    IN  /\ listener.at = "idle"
        /\ listener' = [listener EXCEPT !.at = "called", !.socket = r.socket,
                                        !.raised = r.raised]
        /\ UNCHANGED <<chain, router, adding, gateway, chains, contexts, serving, channel, units>>

\* application, after the function: an HTTPException is turned into a reject
\* with its response; request.close() runs in the finally block; any other
\* exception, and an exception of reject, leaves the application.
ApplicationExit ==
    LET caught == listener.raised = "HTTPException"
        r == reject(listener.socket, Handler("listener", 0), DefaultResponse)
        x == IF caught THEN IF r.raised THEN "ValueError" ELSE "return"
             ELSE listener.raised
        socket == IF caught THEN r.socket ELSE listener.socket
    IN  /\ listener.at = "called"
        /\ listener' = [listener EXCEPT
                            !.at = "closed",
                            !.escaped = x,
                            !.socket = close(socket, Handler("listener", 1)).socket]
        /\ UNCHANGED <<chain, router, adding, gateway, chains, contexts, serving, channel, units>>

ListenerNext == Application \/ ApplicationExit

ListenerSpec == ListenerInit /\ [][ListenerNext]_vars

(***************************************************************************)
(* The websocket channel of the twisted server (rolo/serving/twisted.py:   *)
(* WebSocketChannel, TwistedWebSocketAdapter) and the WebSocket that reads *)
(* from it (rolo/websocket/request.py).                                    *)
(***************************************************************************)

\* The largest number of messages the client sends.
MaxMessages == 2
\* The largest number of calls of receive the reading thread makes itself
\* (the calls an iteration makes are not counted).
MaxReceives == 3

\* The events of the queue; "after" is history: how many messages had
\* arrived when the event was put.
Event(kind, data, after) == [kind |-> kind, data |-> data, after |-> after]

\* Queue.put / put_nowait and Queue.get: first in, first out.
put_first(queue, event) == <<event>> \o queue
put_nowait(queue, event) == Append(queue, event)

\* WebSocketChannel.close: the first call finishes the request and puts the
\* poison pill, CloseConnection(None); later calls do nothing.
closeChannel(c) ==
    IF c.finished THEN c
    ELSE [c EXCEPT !.finished = TRUE,
                   !.eventQueue = put_nowait(@, Event("CloseConnection", "None",
                                                      Len(c.arrived)))]

\* TwistedWebSocketAdapter.receive, once the queue has given it an event,
\* followed by WebSocket.receive, which takes the data of a message.
receive(event) ==
    CASE event.kind = "Request" -> [outcome |-> "CreateConnection", data |-> "None"]
      [] event.kind = "TextMessage" -> [outcome |-> "Message", data |-> event.data]
      [] event.kind = "CloseConnection" ->
            [outcome |-> "WebSocketDisconnectedError", data |-> event.data]
      [] OTHER -> [outcome |-> "WebSocketProtocolError", data |-> event.kind]

\* The thread that reads: where it is, whether its call of receive has a
\* timeout, whether the call is made by an iteration, and (history) whether
\* the channel was closed when the call was made.
Reader(at, timeout, iterating, closed) ==
    [at |-> at, timeout |-> timeout, iterating |-> iterating, closed |-> closed]

\* _processWebsocket: the channel is created, initiateUpgrade has put the
\* request of the client on the queue and the listener is about to run.
ChannelInit ==
    /\ NoChain
    /\ NoRouter
    /\ NoAdd
    /\ gateway = <<>>
    /\ chains = <<>>
    /\ contexts = <<>>
    /\ serving = <<>>
    /\ listener = <<>>
    /\ dispatching = <<>>
    /\ context = <<>>
    /\ removal = <<>>
    /\ channel = [eventQueue |-> <<Event("Request", "None", 0)>>,
                  finished |-> FALSE,
                  client |-> "open",
                  reader |-> Reader("new", FALSE, FALSE, FALSE),
                  arrived |-> <<>>,
                  received |-> <<>>,
                  before |-> 0,
                  yielded |-> <<>>,
                  ended |-> [how |-> "no", after |-> 0]]

\* dataReceived: the client sends a message or closes the websocket. A
\* message is put on the queue; for a CloseConnection the channel is closed
\* first and the event is put as well.
DataReceived(kind) ==
    /\ channel.client = "open"
    /\ IF kind = "TextMessage"
       THEN /\ Len(channel.arrived) < MaxMessages
            /\ channel' = [channel EXCEPT
                    !.eventQueue = put_nowait(@, Event(kind, Len(channel.arrived) + 1,
                                                       Len(channel.arrived))),
                    !.arrived = Append(@, Len(channel.arrived) + 1)]
       ELSE channel' = [closeChannel(channel) EXCEPT
                    !.eventQueue = put_nowait(@, Event(kind, "1000", Len(channel.arrived))),
                    !.client = "closed"]
    /\ UNCHANGED <<chain, router, adding, gateway, chains, contexts, serving, listener, units>>

\* connectionLost: the transport is gone; nothing arrives any more.
ConnectionLost ==
    /\ channel.client # "lost"
    /\ channel' = [closeChannel(channel) EXCEPT !.client = "lost"]
    /\ UNCHANGED <<chain, router, adding, gateway, chains, contexts, serving, listener, units>>

\* wsClose: the server closes the websocket (WebSocket.close).
wsClose ==
    /\ channel' = closeChannel(channel)
    /\ UNCHANGED <<chain, router, adding, gateway, chains, contexts, serving, listener, units>>

\* WebSocketRequest.accept: the listener takes the request of the client
\* from the queue and has a WebSocket.
AcceptUpgrade ==
    /\ channel.reader.at = "new"
    /\ channel' = [channel EXCEPT
            !.eventQueue = Tail(@),
            !.reader.at = IF receive(Head(channel.eventQueue)).outcome = "CreateConnection"
                          THEN "idle" ELSE "failed"]
    /\ UNCHANGED <<chain, router, adding, gateway, chains, contexts, serving, listener, units>>

\* The reading thread calls receive, with a timeout (adapter.receive) or
\* without one (WebSocket.receive), and waits in Queue.get.
Receive(timeout) ==
    /\ channel.reader.at = "idle"
    /\ Len(channel.received) < MaxReceives
    /\ channel' = [channel EXCEPT
            !.reader = Reader("waiting", timeout, FALSE, channel.finished)]
    /\ UNCHANGED <<chain, router, adding, gateway, chains, contexts, serving, listener, units>>

\* The reading thread starts "for message in websocket": WebSocket.__iter__
\* calls receive.
Iterate ==
    /\ channel.reader.at = "idle"
    /\ channel.ended.how = "no"
    /\ channel' = [channel EXCEPT
            !.reader = Reader("waiting", FALSE, TRUE, channel.finished),
            !.before = Cardinality({n \in DOMAIN channel.received :
                                        channel.received[n].outcome = "Message"})]
    /\ UNCHANGED <<chain, router, adding, gateway, chains, contexts, serving, listener, units>>

\* Queue.get returns an event and receive returns or raises. In an
\* iteration a message is yielded and receive is called again, the
\* disconnect error ends the iteration, any other error leaves it.
Get ==
    LET r == receive(Head(channel.eventQueue))
        c == [channel EXCEPT !.eventQueue = Tail(@)]
    IN  /\ channel.reader.at = "waiting"
        /\ channel.eventQueue # <<>>
        /\ channel' =
            IF ~channel.reader.iterating
            THEN [c EXCEPT !.reader.at = "idle",
                           !.received = Append(@, [timeout |-> channel.reader.timeout,
                                                   closed |-> channel.reader.closed,
                                                   outcome |-> r.outcome,
                                                   data |-> r.data])]
            ELSE IF r.outcome = "Message"
            THEN [c EXCEPT !.yielded = Append(@, r.data),
                           !.reader.closed = channel.finished]
            ELSE [c EXCEPT !.reader = Reader("idle", FALSE, FALSE, FALSE),
                           !.ended = [how |-> IF r.outcome = "WebSocketDisconnectedError"
                                              THEN "break" ELSE r.outcome,
                                      after |-> Head(channel.eventQueue).after]]
        /\ UNCHANGED <<chain, router, adding, gateway, chains, contexts, serving, listener, units>>

\* Queue.get(timeout) raises Empty: the queue stayed empty for the timeout,
\* and receive raises TimeoutError.
Empty ==
    /\ channel.reader.at = "waiting"
    /\ channel.reader.timeout
    /\ channel.eventQueue = <<>>
    /\ channel' = [channel EXCEPT
            !.reader.at = "idle",
            !.received = Append(@, [timeout |-> TRUE,
                                    closed |-> channel.reader.closed,
                                    outcome |-> "TimeoutError",
                                    data |-> "None"])]
    /\ UNCHANGED <<chain, router, adding, gateway, chains, contexts, serving, listener, units>>

ChannelNext ==
    \/ \E kind \in {"TextMessage", "CloseConnection"} : DataReceived(kind)
    \/ ConnectionLost
    \/ wsClose
    \/ AcceptUpgrade
    \/ \E timeout \in BOOLEAN : Receive(timeout)
    \/ Iterate
    \/ Get
    \/ Empty

ChannelSpec == ChannelInit /\ [][ChannelNext]_vars

(***************************************************************************)
(* HandlerDispatcher (rolo/routing/handler.py) and                         *)
(* PydanticHandlerDispatcher (rolo/routing/pydantic.py)                    *)
(***************************************************************************)

\* A value an endpoint returns: its type and its content.
Value(kind, data) == [kind |-> kind, data |-> data]
NoValue == Value("none", "")

\* What invoke_endpoint does: it raises, or it returns a value, having
\* invoked the endpoint or not.
EndpointCall(raised, invoked, value) ==
    [raised |-> raised, invoked |-> invoked, value |-> value]

\* Response(e.json(), mimetype="application/json", status=400)
ValidationResponse ==
    [status_code |-> 400, response |-> Body(<<Raw("e.json()")>>),
     headers |-> [n \in {ContentType} |-> "application/json"]]

\* The request bodies: none, not JSON, a JSON array, an object that does not
\* fit the type of the parameter, and one that does.
Bodies == {"empty", "malformed", "array", "invalid", "valid"}

\* _validate_typeddict: whether it reports errors
validate_typeddictAccepts(body) == FALSE
validate_typeddict(body) == body = "invalid"

\* HandlerDispatcher.invoke_endpoint; "bound" says that the argument of the
\* body parameter is among the request_args already.
HandlerInvoke(parameter, body, bound, value) ==
    IF parameter = "TypedDict"
    THEN IF body \in {"empty", "malformed"} \/ body = "array" \/ validate_typeddict(body)
         THEN EndpointCall("BadRequest", FALSE, NoValue)
         ELSE EndpointCall("none", TRUE, value)
    ELSE IF parameter = "BaseModel" /\ ~bound
    THEN EndpointCall("TypeError", FALSE, NoValue)
    ELSE EndpointCall("none", TRUE, value)

\* _try_parse_pydantic_request_body: the exception it raises, and whether it
\* returns a model
try_parse_pydantic_request_body(parameter, body) ==
    IF parameter # "BaseModel" THEN [raised |-> "none", bound |-> FALSE]
    ELSE CASE body = "empty" -> [raised |-> "ValidationError", bound |-> FALSE]
           [] body = "malformed" -> [raised |-> "BadRequest", bound |-> FALSE]
           [] body \in {"array", "invalid"} ->
                    [raised |-> "ValidationError", bound |-> FALSE]
           [] OTHER -> [raised |-> "none", bound |-> TRUE]

\* invoke_endpoint of the two dispatchers
invoke_endpoint(dispatcher, parameter, body, value) ==
    IF dispatcher = "PydanticHandlerDispatcher"
    THEN LET arg == try_parse_pydantic_request_body(parameter, body)
         IN  IF arg.raised = "ValidationError"
             THEN EndpointCall("none", FALSE, Value("Response", ValidationResponse))
             ELSE IF arg.raised # "none"
             THEN EndpointCall(arg.raised, FALSE, NoValue)
             ELSE HandlerInvoke(parameter, body, arg.bound, value)
    ELSE HandlerInvoke(parameter, body, FALSE, value)

\* BaseModel.model_dump, and the list made of a list or tuple
model_dump(value) == Value("dict", <<"model_dump", value.data>>)
converted(value) == Value("list", value.data)

\* HandlerDispatcher.populate_response
HandlerPopulate(resp, value) ==
    CASE value.kind \in {"str", "bytes", "bytearray"} ->
            [raised |-> "none", response |-> set_data(resp, value.data)]
      [] value.kind \in {"dict", "list"} ->
            [raised |-> "none", response |-> set_json(resp, value.data)]
      [] OTHER -> [raised |-> "ValueError", response |-> resp]

\* populate_response of the two dispatchers
populate_response(dispatcher, resp, value) ==
    IF dispatcher = "PydanticHandlerDispatcher"
    THEN HandlerPopulate(resp, CASE value.kind = "BaseModel" -> model_dump(value)
                                 [] value.kind \in {"list", "tuple"} -> converted(value)
                                 [] OTHER -> value)
    ELSE HandlerPopulate(resp, value)

\* HandlerDispatcher.to_response
to_responseStrict(dispatcher, value) ==
    IF value.kind = "Response"
    THEN [raised |-> "none", response |-> value.data]
    ELSE populate_response(dispatcher, DefaultResponse, value)
to_response(dispatcher, value) ==
    IF value.kind = "Response"
    THEN [raised |-> "none", response |-> value.data]
    ELSE IF value.kind = "None"
    THEN [raised |-> "none", response |-> DefaultResponse]
    ELSE populate_response(dispatcher, DefaultResponse, value)

\* The values an endpoint returns
Values ==
    {Value("Response", [DefaultResponse EXCEPT !.status_code = 404,
                                               !.response = Body(<<Raw("gone")>>)]),
     Value("None", "")}
        \cup {Value(kind, "data") : kind \in {"str", "bytes", "bytearray", "dict", "list",
                                              "tuple", "BaseModel", "int"}}

\* A dispatcher is about to be called for an endpoint and a request.
DispatcherInit ==
    /\ NoChain
    /\ NoRouter
    /\ NoAdd
    /\ gateway = <<>>
    /\ chains = <<>>
    /\ contexts = <<>>
    /\ serving = <<>>
    /\ listener = <<>>
    /\ channel = <<>>
    /\ context = <<>>
    /\ removal = <<>>
    /\ dispatching \in
            [dispatcher : {"HandlerDispatcher", "PydanticHandlerDispatcher"},
             parameter : {"none", "TypedDict", "BaseModel"},
             body : Bodies,
             value : Values,
             at : {"called"},
             invoked : {FALSE},
             raised : {"none"},
             result : {NoValue},
             response : {DefaultResponse}]

\* HandlerDispatcher.__call__: "result = self.invoke_endpoint(...)"
InvokeEndpoint ==
    LET r == invoke_endpoint(dispatching.dispatcher, dispatching.parameter,
                             dispatching.body, dispatching.value)
    IN  /\ dispatching.at = "called"
        /\ dispatching' = [dispatching EXCEPT
                !.at = IF r.raised = "none" THEN "returning" ELSE "raised",
                !.invoked = r.invoked,
                !.raised = r.raised,
                !.result = r.value]
        /\ UNCHANGED <<chain, router, adding, gateway, chains, contexts, serving,
                       sockets, context, removal>>

\* HandlerDispatcher.__call__: "return self.to_response(result)"
ToResponse ==
    LET r == to_response(dispatching.dispatcher, dispatching.result)
    IN  /\ dispatching.at = "returning"
        /\ dispatching' = [dispatching EXCEPT
                !.at = IF r.raised = "none" THEN "returned" ELSE "raised",
                !.raised = r.raised,
                !.response = r.response]
        /\ UNCHANGED <<chain, router, adding, gateway, chains, contexts, serving,
                       sockets, context, removal>>

DispatcherNext == InvokeEndpoint \/ ToResponse

DispatcherSpec == DispatcherInit /\ [][DispatcherNext]_vars

(***************************************************************************)
(* Properties of the Gateway                                               *)
(***************************************************************************)

\* Whether a handler invoked for the call s called the primitive.
Did(s, primitive) ==
    \E n \in 1..Len(s.invoked) : primitive \in s.invoked[n].did

\* Whether a handler the chain invoked for the call s raised.
Failed(s) ==
    \E n \in 1..Len(s.invoked) :
        s.invoked[n].within = NoHandler /\ s.invoked[n].raised

\* C24: every call of Gateway.process has a HandlerChain and a
\* RequestContext of its own.  Whatever calls of process the threads make on
\* one Gateway, in sequence or interleaved, the chain of a call refers to the
\* context and the response of that call; it is stopped, terminated or holds
\* a pending error only if a handler invoked for that call stopped or
\* terminated it, threw the error, or raised; the context holds the request
\* of the call and only attributes set while handling it; and two threads
\* never share a chain or a context.
C24_RequestsAreIsolated ==
    \A t \in DOMAIN serving :
        serving[t].kind # "none" =>
            LET s == serving[t]
                c == chains[s.chain]
                x == contexts[s.context]
            IN  /\ c.context = s.context
                /\ c.response = s.id
                /\ x.request = s.request
                /\ \A a \in x.attributes : a.value = s.id
                /\ c.stopped => Did(s, "stop") \/ Failed(s)
                /\ c.terminated => Did(s, "terminate")
                /\ c.error # None => Did(s, "throw")
                /\ \A u \in DOMAIN serving \ {t} :
                        serving[u].kind # "none" =>
                            /\ serving[u].chain # s.chain
                            /\ serving[u].context # s.context

\* C24 witness: while one call, whose handler set an attribute, stopped the
\* chain and threw, is about to run its finalizers, the first request
\* handler of a call that began later on another thread has returned: the
\* chain of the later call is running and its context has no attribute.
C24_Witness ==
    \E t, u \in DOMAIN serving :
        /\ t # u
        /\ serving[t].at = "finalizers"
        /\ chains[serving[t].chain].stopped
        /\ chains[serving[t].chain].error # None
        /\ contexts[serving[t].context].attributes # {}
        /\ serving[u].id > serving[t].id
        /\ serving[u].at = "request"
        /\ serving[u].i = 2
        /\ ~chains[serving[u].chain].stopped
        /\ chains[serving[u].chain].error = None
        /\ contexts[serving[u].context].attributes = {}

\* The calls the gateway itself made on the websocket of the call s.
ByGateway(s) ==
    {n \in 1..Len(s.socket.calls) : s.socket.calls[n].by = TheGateway}

\* C25: Gateway.accept runs the chain on a response whose status is 101, and
\* when the status is still 101 after the chain has run, the gateway itself
\* neither accepts, rejects nor closes the websocket, whether or not a
\* handler accepted or rejected it.
C25_NoReplyWhenStill101 ==
    \A t \in DOMAIN serving :
        serving[t].kind = "accept" =>
            /\ serving[t].invoked = <<>> => serving[t].response.status_code = 101
            /\ (serving[t].at = "accepted" /\ serving[t].response.status_code = 101)
                    => ByGateway(serving[t]) = {}

\* C25 witness: accept has returned, the request handlers ran and left the
\* status at 101 and the websocket neither accepted nor rejected.
C25_Witness ==
    \E t \in DOMAIN serving :
        /\ serving[t].kind = "accept"
        /\ serving[t].at = "accepted"
        /\ serving[t].invoked # <<>>
        /\ serving[t].invoked[1].handler.list = "request"
        /\ serving[t].response.status_code = 101
        /\ ~serving[t].socket.upgraded
        /\ ~serving[t].socket.rejected
        /\ ByGateway(serving[t]) = {}

\* Whether the router of the RouterHandler h has a route for the request.
HasRoute(h, request) ==
    \E n \in 1..Len(h.router) : h.router[n].route = request

\* C26: in the state after handle has invoked a RouterHandler as its first
\* request handler.  When the router produced a response, the handler has
\* copied it into the response of the chain and stopped the chain.  When the
\* router raised NotFound and respond_not_found is set, the response is 404
\* "not found" and the chain is stopped.  When it raised NotFound and
\* respond_not_found is not set, the response and the chain are as before
\* and handle is about to invoke the next request handler.  When the
\* endpoint raised, the handler did not stop the chain.
C26_RouterHandler ==
    \A t \in DOMAIN serving :
        LET s == serving[t]
            h == gateway.request_handlers[1]
            before == s.last.before
            after == s.last.after
        IN  (h.kind = "router" /\ s.last.handler = h.name) =>
                /\ ~before.chain.stopped
                /\ (HasRoute(h, s.request) /\ s.request # "/boom") =>
                        /\ ~s.last.raised
                        /\ after.response.status_code = 200
                        /\ after.response.response = Body(<<Dumps(s.request)>>)
                        /\ after.response.headers[ContentType] = "application/json"
                        /\ after.chain = [before.chain EXCEPT !.stopped = TRUE]
                        /\ s.at # "request"
                /\ (~HasRoute(h, s.request) /\ h.respond_not_found) =>
                        /\ ~s.last.raised
                        /\ after.response.status_code = 404
                        /\ after.response.response = Body(<<Raw("not found")>>)
                        /\ after.chain = [before.chain EXCEPT !.stopped = TRUE]
                        /\ s.at # "request"
                /\ (~HasRoute(h, s.request) /\ ~h.respond_not_found) =>
                        /\ ~s.last.raised
                        /\ after = before
                        /\ s.at = "request"
                        /\ s.i = 2
                /\ (HasRoute(h, s.request) /\ s.request = "/boom") =>
                        /\ s.last.raised
                        /\ after = before

\* C26 witness: the router of a RouterHandler without respond_not_found had
\* no route for the request; the handler returned and handle is about to
\* invoke the second request handler.
C26_Witness ==
    \E t \in DOMAIN serving :
        /\ gateway.request_handlers[1].kind = "router"
        /\ ~gateway.request_handlers[1].respond_not_found
        /\ serving[t].request = "/b"
        /\ serving[t].last.handler = Handler("request", 1)
        /\ ~chains[serving[t].chain].stopped
        /\ serving[t].at = "request"
        /\ serving[t].i = 2

\* How often the handler named "name" was invoked for the call s.
Invocations(s, name) ==
    Cardinality({n \in 1..Len(s.invoked) : s.invoked[n].handler = name})

\* The positions of the handlers of the composite h invoked for the call s,
\* in the order of their invocation.
InvokedMembers(s, h) ==
    LET within == SelectSeq(s.invoked, LAMBDA entry : entry.within = h.name)
    IN  [n \in 1..Len(within) |-> within[n].handler.pos]

\* Whether every handler of the list was invoked once for the call s.
AllRun(s, list) ==
    \A n \in 1..Len(list) : Invocations(s, list[n].name) = 1

\* handle has returned to process.
HandleReturned(s) == s.at \in {"returned", "accepted"}

\* C27: a CompositeHandler is registered as request handler and handle
\* invoked it; its handler n only calls stop() and the handlers before n do
\* nothing.  With return_on_stop the handlers after n are not invoked;
\* without it all handlers of the composite are invoked (unless one of them
\* terminates the chain or raises).  In both cases the request handlers
\* after the composite are not invoked, and every response handler and
\* every finalizer runs.
C27_StopInCompositeHandler ==
    \A t \in DOMAIN serving :
        LET s == serving[t]
            h == gateway.request_handlers[2]
        IN  (/\ Len(gateway.request_handlers) = 3
             /\ h.kind = "composite"
             /\ Invocations(s, h.name) = 1
             /\ HandleReturned(s)) =>
                \A n \in 1..Len(h.handlers) :
                    (/\ h.handlers[n].does[s.request] = {"stop"}
                     /\ \A m \in 1..(n - 1) : h.handlers[m].does[s.request] = {}
                     /\ h.return_on_stop \/
                            \A m \in (n + 1)..Len(h.handlers) :
                                h.handlers[m].does[s.request] \subseteq {"stop"}) =>
                        /\ InvokedMembers(s, h) =
                                [m \in 1..(IF h.return_on_stop THEN n ELSE Len(h.handlers))
                                    |-> m]
                        /\ Invocations(s, gateway.request_handlers[3].name) = 0
                        /\ AllRun(s, gateway.response_handlers)
                        /\ AllRun(s, gateway.finalizers)

\* C27 witness: the first of the two handlers of a CompositeHandler that
\* does not return on stop called stop(); the second was invoked, the
\* request handler after the composite was not, and the response handler
\* and the finalizer ran.
C27_Witness ==
    \E t \in DOMAIN serving :
        LET s == serving[t]
            h == gateway.request_handlers[2]
        IN  /\ Len(gateway.request_handlers) = 3
            /\ h.kind = "composite"
            /\ ~h.return_on_stop
            /\ Len(h.handlers) = 2
            /\ HandleReturned(s)
            /\ h.handlers[1].does[s.request] = {"stop"}
            /\ h.handlers[2].does[s.request] = {}
            /\ InvokedMembers(s, h) = <<1, 2>>
            /\ Invocations(s, Handler("request", 3)) = 0
            /\ Invocations(s, Handler("response", 1)) = 1
            /\ Invocations(s, Handler("finalizer", 1)) = 1

SafeComposites ==
    {gateway.finalizers[n] : n \in {m \in 1..Len(gateway.finalizers) :
                                        gateway.finalizers[m].kind = "safe"}}
    \cup
    {gateway.exception_handlers[n] :
        n \in {m \in 1..Len(gateway.exception_handlers) :
                    gateway.exception_handlers[m].kind = "safe"}}

\* C29: when a CompositeExceptionHandler or a CompositeFinalizer has been
\* invoked, every one of its handlers has been invoked exactly once, in the
\* order they were appended, whichever of them raised and whether or not
\* the chain is stopped or terminated; and no exception left the composite.
C29_SafeCompositesRunEveryHandler ==
    \A t \in DOMAIN serving :
        \A h \in SafeComposites :
            \A n \in 1..Len(serving[t].invoked) :
                serving[t].invoked[n].handler = h.name =>
                    /\ ~serving[t].invoked[n].raised
                    /\ InvokedMembers(serving[t], h) =
                            [m \in 1..Len(h.handlers) |-> m]

\* C29 witness: the chain was terminated by a request handler; the first
\* handler of a CompositeFinalizer raised, the second was invoked all the
\* same, and the composite returned.
C29_Witness ==
    \E t \in DOMAIN serving :
        LET s == serving[t]
            h == gateway.finalizers[1]
        IN  /\ h.kind = "safe"
            /\ Len(h.handlers) = 2
            /\ s.kind = "process"
            /\ chains[s.chain].terminated
            /\ "terminate" \in s.invoked[1].did
            /\ "raise" \in h.handlers[1].does[s.request]
            /\ s.last.handler = h.name
            /\ ~s.last.raised
            /\ InvokedMembers(s, h) = <<1, 2>>

\* What the response-handler loop of the chain does when the handlers of the
\* composite h are registered in it directly, on the chain object and the
\* response the composite was invoked with for the call s.
Directly(s, h) ==
    call_response_handlers(
        h.handlers, h.name, 1,
        Environment(s.last.before.chain, s.last.before.response, NoSocket, {}, <<>>),
        s.request, s.id)

\* The invocations of the handlers of the composite h for the call s.
Within(s, h) == SelectSeq(s.invoked, LAMBDA entry : entry.within = h.name)

\* C30, as stated: when handle has invoked a CompositeResponseHandler as a
\* response handler, the handlers of the composite that were invoked are
\* those the response-handler loop of the chain invokes when they are
\* registered directly, whichever of them stop, terminate and raise.
C30_CompositeMimicsChain ==
    \A t \in DOMAIN serving :
        LET s == serving[t]
            h == gateway.response_handlers[1]
        IN  (/\ Len(gateway.response_handlers) = 2
             /\ h.kind = "composite"
             /\ s.last.handler = h.name) =>
                Within(s, h) = Directly(s, h).invoked

\* C30, what the composite does: the handlers invoked are those the loop of
\* the chain invokes up to the first one that raises; they leave the chain
\* object and the response as the loop does when no handler raises before
\* the last.
C30_MimicsChainUntilRaise ==
    \A t \in DOMAIN serving :
        LET s == serving[t]
            h == gateway.response_handlers[1]
            direct == Directly(s, h)
            actual == Within(s, h)
        IN  (/\ Len(gateway.response_handlers) = 2
             /\ h.kind = "composite"
             /\ s.last.handler = h.name) =>
                /\ Len(actual) <= Len(direct.invoked)
                /\ actual = SubSeq(direct.invoked, 1, Len(actual))
                /\ \A n \in 1..(Len(actual) - 1) : ~actual[n].raised
                /\ Len(actual) < Len(direct.invoked) => actual[Len(actual)].raised
                /\ Len(actual) = Len(direct.invoked) =>
                        /\ s.last.after.chain = direct.chain
                        /\ s.last.after.response = direct.response

\* C30 witness: the first of the two handlers of a CompositeResponseHandler
\* raised without terminating the chain; the composite did not invoke the
\* second, which the loop of the chain invokes.
C30_Witness ==
    \E t \in DOMAIN serving :
        LET s == serving[t]
            h == gateway.response_handlers[1]
        IN  /\ Len(gateway.response_handlers) = 2
            /\ h.kind = "composite"
            /\ Len(h.handlers) = 2
            /\ s.last.handler = h.name
            /\ s.last.raised
            /\ InvokedMembers(s, h) = <<1>>
            /\ Len(Directly(s, h).invoked) = 2

\* C31: a WebSocketRequest is never both upgraded and rejected, and at most
\* one accept or reject reaches its socket.  When a handler calls accept or
\* reject on a request that was accepted or rejected before, the call
\* raises, nothing is called on the socket and no flag changes.
C31_SettledAtMostOnce ==
    \A t \in DOMAIN serving :
        LET s == serving[t]
            before == s.last.before.socket
            after == s.last.after.socket
        IN  s.kind = "accept" =>
                /\ ~(s.socket.upgraded /\ s.socket.rejected)
                /\ Cardinality({n \in 1..Len(s.socket.calls) :
                        s.socket.calls[n].method \in {"accept", "reject"}}) <= 1
                /\ (/\ s.last.handler.list = "request"
                    /\ gateway.request_handlers[s.last.handler.pos].kind = "function"
                    /\ before.upgraded \/ before.rejected
                    /\ {"accept", "reject"} \cap
                        gateway.request_handlers[s.last.handler.pos].does[s.request] # {})
                        => s.last.raised /\ after = before

\* C31 witness: the first request handler accepted the websocket; the second
\* called reject, which raised and left the socket and the flags alone.
C31_Witness ==
    \E t \in DOMAIN serving :
        LET s == serving[t]
        IN  /\ s.kind = "accept"
            /\ s.last.handler = Handler("request", 2)
            /\ gateway.request_handlers[1].kind = "function"
            /\ "accept" \in gateway.request_handlers[1].does[s.request]
            /\ "reject" \in gateway.request_handlers[2].does[s.request]
            /\ s.last.raised
            /\ s.last.before.socket.upgraded
            /\ s.socket = s.last.before.socket
            /\ Len(s.socket.calls) = 1

\* The calls handlers made on the websocket of the call s that accepted or
\* rejected it.
ByHandlers(s) ==
    {n \in 1..Len(s.socket.calls) :
        /\ s.socket.calls[n].by # TheGateway
        /\ s.socket.calls[n].method \in {"accept", "reject"}}

\* C37: when accept has ended.  If the status of the response is not 101 and
\* no handler accepted or rejected the request, the gateway has rejected it
\* once, with the populated response.  If a handler accepted or rejected
\* it, the gateway has called nothing on the socket.  accept never fails
\* with the error of a request that is already upgraded or rejected.
C37_GatewayRejectsUnsettled ==
    \A t \in DOMAIN serving :
        LET s == serving[t]
        IN  s.kind = "accept" =>
                /\ s.at # "failed"
                /\ (s.at = "accepted" /\ s.response.status_code # 101
                        /\ ByHandlers(s) = {}) =>
                        /\ Cardinality(ByGateway(s)) = 1
                        /\ \A n \in ByGateway(s) :
                            /\ s.socket.calls[n].method = "reject"
                            /\ s.socket.calls[n].sent = s.response
                        /\ s.socket.rejected
                /\ (s.at = "accepted" /\ ByHandlers(s) # {}) => ByGateway(s) = {}

\* C37 witness: a request handler accepted the websocket and another
\* responded; accept has returned and the gateway has called nothing on the
\* socket.
C37_Witness ==
    \E t \in DOMAIN serving :
        LET s == serving[t]
        IN  /\ s.kind = "accept"
            /\ s.at = "accepted"
            /\ s.response.status_code = 202
            /\ s.socket.upgraded
            /\ ByHandlers(s) # {}
            /\ ByGateway(s) = {}

(***************************************************************************)
(* Properties of WebSocketRequest.listener                                 *)
(***************************************************************************)

\* The calls the application itself made on the socket of the request.
ByListener(method) ==
    {nth \in DOMAIN listener.socket.calls :
        /\ listener.socket.calls[nth].by.list = "listener"
        /\ listener.socket.calls[nth].method = method}

\* The wrapped function had settled the request when it ended.
SettledByFunction ==
    \E nth \in DOMAIN listener.socket.calls :
        /\ listener.socket.calls[nth].by.list = "fn"
        /\ listener.socket.calls[nth].method \in {"accept", "reject"}

\* C40: when the wrapped function raises an HTTPException, whatever it did
\* on the request before (accepting it included), the application returns
\* normally and has rejected the request with the response of the exception.
C40_HTTPExceptionNeverEscapes ==
    (listener # <<>> /\ listener.at = "closed" /\ listener.raised = "HTTPException")
        => /\ listener.escaped = "return"
           /\ ByListener("reject") # {}

\* C40, as the code has it: the HTTPException of a function that has not
\* settled the request becomes a reject with the response of the exception
\* and the application returns; after a function that has accepted or
\* rejected, the reject of the application raises ValueError, which leaves
\* the application, and nothing is sent. In every case the application
\* closes the request last: the close reaches the socket exactly when the
\* request was never settled.
C40_HTTPExceptionRejectsUnsettled ==
    (listener # <<>> /\ listener.at = "closed")
        => /\ (listener.raised = "HTTPException" /\ ~SettledByFunction)
                => /\ listener.escaped = "return"
                   /\ Cardinality(ByListener("reject")) = 1
                   /\ listener.socket.rejected
           /\ (listener.raised = "HTTPException" /\ SettledByFunction)
                => /\ listener.escaped = "ValueError"
                   /\ ByListener("reject") = {}
           /\ listener.raised # "HTTPException"
                => /\ listener.escaped = listener.raised
                   /\ ByListener("reject") = {}
           /\ ByListener("close") # {}
                <=> ~listener.socket.upgraded /\ ~listener.socket.rejected

\* The function accepted the websocket and then raised an HTTPException: the
\* application ended with the ValueError of its reject.
C40_Witness ==
    /\ listener # <<>>
    /\ listener.at = "closed"
    /\ listener.ops = <<"accept">>
    /\ listener.socket.upgraded
    /\ listener.raised = "HTTPException"
    /\ listener.escaped = "ValueError"

(***************************************************************************)
(* Properties of the websocket channel                                     *)
(***************************************************************************)

\* C32: an iteration of a WebSocket yields the messages in the order in
\* which they arrived, none left out, starting with the first message the
\* thread had not received before; the only way it ends is normally, on a
\* disconnect, and by then it has yielded every message that arrived before
\* that disconnect. (The client sends messages and closes; the connection
\* may be lost and the server may close at any time.)
C32_IterationYieldsInArrivalOrder ==
    channel # <<>> =>
        /\ \A n \in DOMAIN channel.yielded :
                /\ channel.before + n \in DOMAIN channel.arrived
                /\ channel.yielded[n] = channel.arrived[channel.before + n]
        /\ channel.ended.how \in {"no", "break"}
        /\ channel.ended.how = "break"
                => /\ ~channel.reader.iterating
                   /\ channel.before + Len(channel.yielded) = channel.ended.after

\* An iteration has yielded two messages and ended on the disconnect.
C32_Witness ==
    /\ channel # <<>>
    /\ channel.ended.how = "break"
    /\ Len(channel.yielded) >= 2
    /\ channel.yielded[1] # channel.yielded[2]

\* The calls of receive that have returned or raised, with a given outcome.
Received(outcome) ==
    {n \in DOMAIN channel.received : channel.received[n].outcome = outcome}

\* C39: a receive without timeout, called when the channel had closed, is
\* never left waiting for good: it does not wait on an empty queue once the
\* connection is lost, when nothing can be put on the queue any more.
C39_ReceiveAfterCloseNeverBlocks ==
    channel # <<>> =>
        ~ /\ channel.finished
          /\ channel.client = "lost"
          /\ channel.reader.at = "waiting"
          /\ channel.reader.closed
          /\ ~channel.reader.timeout
          /\ channel.eventQueue = <<>>

\* C39, as the code has it: closing puts one poison pill on the queue, so
\* that of all the calls of receive and the iteration at most one ends with
\* the disconnect error of the pill, and at most one more with that of the
\* client's own close; a receive that raises the timeout error had a
\* timeout, and the timeout error is not the disconnect error.
C39_OnePoisonPill ==
    channel # <<>> =>
        LET pills == {n \in Received("WebSocketDisconnectedError") :
                            channel.received[n].data = "None"}
            closes == Received("WebSocketDisconnectedError") \ pills
        IN  /\ Cardinality(pills) <= 1
            /\ Cardinality(closes) <= 1
            /\ Cardinality(Received("WebSocketDisconnectedError"))
                    + (IF channel.ended.how = "break" THEN 1 ELSE 0) <= 2
            /\ \A n \in Received("TimeoutError") : channel.received[n].timeout
            /\ Received("TimeoutError") \cap Received("WebSocketDisconnectedError") = {}

\* After the close, a first receive raised the disconnect error, a receive
\* with a timeout raised the timeout error, and the next receive without
\* timeout waits on the empty queue of the lost connection.
C39_Witness ==
    /\ channel # <<>>
    /\ Received("WebSocketDisconnectedError") # {}
    /\ \E n \in Received("TimeoutError") : channel.received[n].closed
    /\ channel.client = "lost"
    /\ channel.reader.at = "waiting"
    /\ channel.reader.closed
    /\ ~channel.reader.timeout
    /\ channel.eventQueue = <<>>

(***************************************************************************)
(* Properties of the dispatchers                                           *)
(***************************************************************************)

\* The dispatcher has coerced the value the endpoint returned, or failed to.
Coerced(kinds) ==
    /\ dispatching # <<>>
    /\ dispatching.invoked
    /\ dispatching.at \in {"returned", "raised"}
    /\ dispatching.result.kind \in kinds

\* The dispatcher returned a JSON response of the document doc.
JsonResponse(doc) ==
    /\ dispatching.at = "returned"
    /\ dispatching.response.response = Body(<<Dumps(doc)>>)
    /\ dispatching.response.headers[ContentType] = "application/json"

\* The dispatcher returned a response whose body is the value, with the
\* content type of a new Response.
RawResponse ==
    /\ dispatching.at = "returned"
    /\ dispatching.response.response = Body(<<Raw(dispatching.result.data)>>)
    /\ dispatching.response.headers = DefaultResponse.headers

\* C33: a Response the endpoint returns is passed through; a dict or a list
\* becomes a JSON body with Content-Type application/json; a str or bytes
\* becomes the raw body; every value that is none of these (None, a number)
\* makes the dispatch fail with the unhandled-result-type error.
C33_OtherValuesUnsupported ==
    /\ Coerced({"Response"}) =>
            dispatching.at = "returned" /\ dispatching.response = dispatching.result.data
    /\ Coerced({"dict", "list"}) => JsonResponse(dispatching.result.data)
    /\ Coerced({"str", "bytes"}) => RawResponse
    /\ Coerced({"None", "int"}) =>
            dispatching.at = "raised" /\ dispatching.raised = "ValueError"

\* C33, as the code has it: a Response is passed through; None gives a new,
\* empty Response; a str, bytes or bytearray becomes the raw body with the
\* content type left alone; a dict or a list becomes a JSON body with
\* Content-Type application/json, and so do, with the pydantic dispatcher, a
\* tuple and a model (as its model_dump); every other value fails with
\* ValueError.
C33_CoercesReturnValue ==
    LET pydantic == dispatching.dispatcher = "PydanticHandlerDispatcher" IN
    /\ Coerced({"Response"}) =>
            dispatching.at = "returned" /\ dispatching.response = dispatching.result.data
    /\ Coerced({"None"}) =>
            dispatching.at = "returned" /\ dispatching.response = DefaultResponse
    /\ Coerced({"str", "bytes", "bytearray"}) => RawResponse
    /\ Coerced({"dict", "list"}) => JsonResponse(dispatching.result.data)
    /\ (Coerced({"tuple"}) /\ pydantic) => JsonResponse(dispatching.result.data)
    /\ (Coerced({"BaseModel"}) /\ pydantic) =>
            JsonResponse(<<"model_dump", dispatching.result.data>>)
    /\ (Coerced({"int"}) \/ (Coerced({"tuple", "BaseModel"}) /\ ~pydantic)) =>
            dispatching.at = "raised" /\ dispatching.raised = "ValueError"

\* An endpoint returned None and the dispatcher returned an empty response.
C33_Witness ==
    /\ Coerced({"None"})
    /\ dispatching.at = "returned"
    /\ dispatching.response.status_code = 200
    /\ dispatching.response.response = Body(<<>>)

\* The endpoint declares a body parameter that the dispatcher binds, and
\* the request body cannot be bound to it; invoke_endpoint has run.
BindingFailed ==
    /\ dispatching # <<>>
    /\ dispatching.at # "called"
    /\ dispatching.body # "valid"
    /\ \/ dispatching.parameter = "TypedDict"
       \/ /\ dispatching.parameter = "BaseModel"
          /\ dispatching.dispatcher = "PydanticHandlerDispatcher"

\* C34: when the body cannot be bound to the body parameter, the dispatch
\* raises BadRequest and the endpoint is not invoked.
C34_BindingFailureRaisesBadRequest ==
    BindingFailed =>
        /\ ~dispatching.invoked
        /\ dispatching.at = "raised"
        /\ dispatching.raised = "BadRequest"

\* C34, as the code has it: the endpoint is never invoked; BadRequest is
\* raised for a TypedDict parameter, and for a pydantic model when the body
\* is not JSON; a body that is empty or does not validate against a pydantic
\* model makes the dispatch return, without raising, a response with status
\* 400 and the validation errors as its JSON body.
C34_BindingFailureIsBadRequest ==
    BindingFailed =>
        /\ ~dispatching.invoked
        /\ IF dispatching.parameter = "TypedDict" \/ dispatching.body = "malformed"
           THEN dispatching.at = "raised" /\ dispatching.raised = "BadRequest"
           ELSE /\ dispatching.raised = "none"
                /\ dispatching.at \in {"returning", "returned"}
                /\ dispatching.result = Value("Response", ValidationResponse)
                /\ dispatching.at = "returned" =>
                        /\ dispatching.response.status_code = 400
                        /\ dispatching.response.headers[ContentType] = "application/json"

\* A body that lacks a field of the pydantic model: the dispatch returned
\* the 400 response.
C34_Witness ==
    /\ BindingFailed
    /\ dispatching.parameter = "BaseModel"
    /\ dispatching.body = "invalid"
    /\ dispatching.at = "returned"
    /\ dispatching.response.status_code = 400

(***************************************************************************)
(* RequestContext (rolo/gateway/chain.py)                                  *)
(***************************************************************************)

\* The largest number of assignments to attributes of the context, the one
\* of __init__ included.
MaxSets == 3

\* RequestContext.__setattr__: "self.__dict__[key] = value"
setdefault(dict, key, value) ==
    [n \in DOMAIN dict \cup {key} |-> IF n \in DOMAIN dict THEN dict[n] ELSE value]
setattr(dict, key, value) ==
    [n \in DOMAIN dict \cup {key} |-> IF n = key THEN value ELSE dict[n]]

\* RequestContext.__getattr__: the value of the key, or AttributeError
getattr(dict, key) ==
    IF key \in DOMAIN dict THEN [raised |-> "none", value |-> dict[key]]
    ELSE [raised |-> "AttributeError", value |-> "None"]

\* RequestContext.get: "self.__dict__.get(key)"
get(dict, key) ==
    [raised |-> "none", value |-> IF key \in DOMAIN dict THEN dict[key] ELSE "None"]

\* RequestContext(request): __init__ assigns the request, which may be None.
ContextInit ==
    /\ NoChain
    /\ NoRouter
    /\ NoAdd
    /\ gateway = <<>>
    /\ chains = <<>>
    /\ contexts = <<>>
    /\ serving = <<>>
    /\ listener = <<>>
    /\ channel = <<>>
    /\ dispatching = <<>>
    /\ removal = <<>>
    /\ \E request \in {"None", "/a"} :
        context = [dict |-> setattr(<<>>, "request", request),
                   sets |-> <<[key |-> "request", value |-> request]>>,
                   read |-> [op |-> "none", key |-> "", raised |-> "none",
                             value |-> "None", after |-> 0]]

\* "context.key = value"
SetAttribute(key, value) ==
    /\ Len(context.sets) < MaxSets
    /\ context' = [context EXCEPT
            !.dict = setattr(@, key, value),
            !.sets = Append(@, [key |-> key, value |-> value])]
    /\ UNCHANGED <<chain, router, adding, gateway, chains, contexts, serving,
                   sockets, dispatching, removal>>

\* "context.key"
GetAttribute(key) ==
    /\ context' = [context EXCEPT
            !.read = [op |-> "getattr", key |-> key,
                      raised |-> getattr(context.dict, key).raised,
                      value |-> getattr(context.dict, key).value,
                      after |-> Len(context.sets)]]
    /\ UNCHANGED <<chain, router, adding, gateway, chains, contexts, serving,
                   sockets, dispatching, removal>>

\* "context.get(key)"
GetKey(key) ==
    /\ context' = [context EXCEPT
            !.read = [op |-> "get", key |-> key,
                      raised |-> get(context.dict, key).raised,
                      value |-> get(context.dict, key).value,
                      after |-> Len(context.sets)]]
    /\ UNCHANGED <<chain, router, adding, gateway, chains, contexts, serving,
                   sockets, dispatching, removal>>

ContextNext ==
    \E key \in {"request", "some_data", "other"} :
        \/ \E value \in {"foo", "bar"} : SetAttribute(key, value)
        \/ GetAttribute(key)
        \/ GetKey(key)

ContextSpec == ContextInit /\ [][ContextNext]_vars

(***************************************************************************)
(* Properties of the RequestContext                                        *)
(***************************************************************************)

\* The assignments made to the key that was read last before it was read,
\* in order.
SetsOfRead ==
    SelectSeq(SubSeq(context.sets, 1, context.read.after),
              LAMBDA a : a.key = context.read.key)

\* C35: reading through attribute access a key that was never set raises
\* (AttributeError), while get returns None for it without raising; once a
\* key is set, attribute access and get both return the value set last.
C35_UnsetRaisesGetReturnsNone ==
    (context # <<>> /\ context.read.op # "none") =>
        IF SetsOfRead = <<>>
        THEN /\ context.read.op = "getattr" => context.read.raised = "AttributeError"
             /\ context.read.op = "get" =>
                    context.read.raised = "none" /\ context.read.value = "None"
        ELSE /\ context.read.raised = "none"
             /\ context.read.value = SetsOfRead[Len(SetsOfRead)].value

\* A key set to one value and then to another was read through attribute
\* access, which returned the second value.
C35_Witness ==
    /\ context # <<>>
    /\ context.read.op = "getattr"
    /\ Len(SetsOfRead) >= 2
    /\ SetsOfRead[1].value # SetsOfRead[2].value
    /\ context.read.value = SetsOfRead[Len(SetsOfRead)].value

(***************************************************************************)
(* Router.remove over rules that share a route (rolo/routing/router.py)    *)
(***************************************************************************)

\* A rule as add makes it: the route (path and host pattern) and the
\* method it is registered for; the endpoint goes with the method.
MethodRule(route, method) == [route |-> route, method |-> method]

\* Router._remove_rules in one thread: KeyError when a given rule is not in
\* the url_map, else the new url_map, the old rules without those that are
\* "in rules".
remove_rules(table, rules) ==
    IF Missing(rules, table)
    THEN [raised |-> "KeyError", table |-> table]
    ELSE [raised |-> "none",
          table |-> SelectSeq(table, LAMBDA old_rule : ~In(old_rule, rules))]

\* Map.match: whether a request for the route with the method finds a rule
Matches(table, route, method) ==
    \E n \in DOMAIN table : table[n].route = route /\ table[n].method = method

\* A router with up to MaxRules rules, and the rules remove is called with.
RemoveInit ==
    /\ NoChain
    /\ NoRouter
    /\ NoAdd
    /\ gateway = <<>>
    /\ chains = <<>>
    /\ contexts = <<>>
    /\ serving = <<>>
    /\ listener = <<>>
    /\ channel = <<>>
    /\ dispatching = <<>>
    /\ context = <<>>
    /\ LET all == {MethodRule(r, m) : r \in Routes, m \in {"GET", "POST"}} IN
        removal \in
            [table : UNION {[1..n -> all] : n \in 0..MaxRules},
             rules : UNION {[1..n -> all] : n \in 1..2},
             at : {"called"},
             raised : {"none"},
             url_map : {<<>>}]

\* Router.remove
RemoveRules ==
    LET r == remove_rules(removal.table, removal.rules)
    IN  /\ removal.at = "called"
        /\ removal' = [removal EXCEPT
                !.at = IF r.raised = "none" THEN "returned" ELSE "raised",
                !.raised = r.raised,
                !.url_map = r.table]
        /\ UNCHANGED <<chain, router, adding, gateway, chains, contexts, serving,
                       sockets, dispatching, context>>

RemoveNext == RemoveRules

RemoveSpec == RemoveInit /\ [][RemoveNext]_vars

(***************************************************************************)
(* Properties of Router.remove                                             *)
(***************************************************************************)

\* The rule is one of the rules remove was called with.
Given(rule) == \E n \in DOMAIN removal.rules : removal.rules[n] = rule

\* C36: after remove, every rule registered before that is not among the
\* given rules still matches, a rule with the route of a given rule but
\* another method included.
C36_OtherRoutesStillMatch ==
    (removal # <<>> /\ removal.at = "returned") =>
        \A n \in DOMAIN removal.table :
            ~Given(removal.table[n]) =>
                Matches(removal.url_map, removal.table[n].route, removal.table[n].method)

\* C36, as the code has it: remove takes out every rule that has the route
\* of a given rule, whatever its method; the rules of all other routes stay,
\* in their order. When a given rule has a route that is not registered,
\* remove raises KeyError and the url_map is the one before.
C36_RemovesBySamePattern ==
    removal # <<>> =>
        /\ removal.at = "returned" =>
            removal.url_map =
                SelectSeq(removal.table,
                          LAMBDA rule : \A n \in DOMAIN removal.rules :
                                            removal.rules[n].route # rule.route)
        /\ removal.at = "raised" =>
            /\ removal.url_map = removal.table
            /\ \E n \in DOMAIN removal.rules :
                    ~Matching(removal.rules[n].route, removal.table)

\* "/a" is registered for GET and for POST; remove is called with the GET
\* rule, and the POST rule is gone as well.
C36_Witness ==
    /\ removal # <<>>
    /\ removal.at = "returned"
    /\ removal.table = <<MethodRule("/a", "GET"), MethodRule("/a", "POST")>>
    /\ removal.rules = <<MethodRule("/a", "GET")>>
    /\ ~Matches(removal.url_map, "/a", "POST")

(***************************************************************************)
(* Exception handlers that override the continuation                       *)
(***************************************************************************)

====
